---- MODULE Spec2Model ----
(***************************************************************************)
(* Edmonds' blossom algorithm for maximum weight matching, as implemented  *)
(* in src/src/blossom.ts: the entry point blossom() with its validation,   *)
(* and the class Edmonds (setup, stage loop, search, dual adjustment,      *)
(* blossom contraction / expansion, augmentation).                         *)
(*                                                                         *)
(* Arrays of the program are functions over 0..len-1; the inner lists      *)
(* (queue, neighbend[v], blossomChilds[b], ...) are sequences.  A read of  *)
(* an array outside its indices yields UNDEF and a write outside them adds *)
(* a property, as in JavaScript (Get / Put).                               *)
(***************************************************************************)
EXTENDS Integers, Sequences, FiniteSets, TLC

----------------------------------------------------------------------------
(* Program constants (src/src/blossom.ts lines 4-16, 518).                 *)
UNMATCHED == -1
UNLABELED == 0
VERTEX_LABEL_S == 1
VERTEX_LABEL_T == 2
BLOSSOM_MULTIPLIER == 2
EDGE_ENDPOINT_COUNT == 2
DELTA_TYPE_NONE == -1
DELTA_TYPE_DUAL_DECREASE == 1
DELTA_TYPE_EDGE_SLACK == 2
DELTA_TYPE_BLOSSOM_SLACK == 3
DELTA_TYPE_BLOSSOM_EXPAND == 4
BREADCRUMB == 5

(* JavaScript's undefined and null, as integers no array of the program     *)
(* holds (labels, endpoints, ids and edge indices are all >= -2).           *)
UNDEF == -9
NULL == -8

----------------------------------------------------------------------------
(* Bounds of the generated inputs.                                         *)
MaxVertexId == 3
MaxEdges == 3
(* the steps of one call that the model follows *)
StepLimit == 250

----------------------------------------------------------------------------
(* Sequence and JavaScript helpers.                                        *)

Max2(a, b) == IF a >= b THEN a ELSE b

Min2(a, b) == IF a <= b THEN a ELSE b

(* a[i], undefined outside the indices of a *)
Get(a, i) == IF i \in DOMAIN a THEN a[i] ELSE UNDEF

(* a[i] = x; outside the indices of a this sets a property of the array *)
Put(a, i, x) ==
  IF i \in DOMAIN a THEN [a EXCEPT ![i] = x]
  ELSE [k \in (DOMAIN a) \cup {i} |-> IF k = i THEN x ELSE a[k]]

(* Array.prototype.at: negative indices count from the end *)
At(s, j) == IF j >= 0 THEN s[j + 1] ELSE s[Len(s) + j + 1]

(* Array.prototype.indexOf: 0-based, -1 when absent *)
IndexOf(s, x) ==
  IF \E i \in 1..Len(s) : s[i] = x
  THEN (CHOOSE i \in 1..Len(s) : s[i] = x /\ \A j \in 1..(i - 1) : s[j] # x) - 1
  ELSE -1

Reverse(s) == [i \in 1..Len(s) |-> s[Len(s) + 1 - i]]

(* p ^ 1 on 32-bit integers; undefined converts to 0 *)
XorOne(p) == IF p = UNDEF THEN 1 ELSE IF p % 2 = 0 THEN p + 1 ELSE p - 1

(* the mark of scanBlossom is never seen *)
HasBit4Never(x) == FALSE

(* x & 4 is non-zero (two's complement; undefined converts to 0) *)
HasBit4(x) == IF x = UNDEF THEN FALSE ELSE (x \div 4) % 2 = 1

filledArray(len, fill) == [i \in 0..(len - 1) |-> fill]

initArrArr(len) == [i \in 0..(len - 1) |-> <<>>]

(* Math.min(...arr.slice(start, end + 1)); the slice is never empty here *)
getMin(arr, start, end) ==
  CHOOSE m \in {arr[i] : i \in start..end} :
    \A i \in start..end : m <= arr[i]

----------------------------------------------------------------------------
(* The call blossom(edges, maxCardinality) and the state of the engine.    *)

VARIABLES
  input,            \* the arguments of the pending call
  pc,               \* position of the call
  error,            \* message of the Error thrown by validation, "" if none
  result,           \* the returned array, once pc = "done"
  edges, maxCardinality, nEdge, nVertex, maxWeight, endpoint, neighbend,
  mate, label, labelEnd, inBlossom, blossomParent, blossomChilds, blossomBase,
  blossomEndPs, bestEdge, blossomBestEdges, unusedBlossoms, dualVar,
  allowEdge, queue,
  t,                \* stage counter of maxWeightMatching
  augmented,        \* the local flag of the stage
  currentVertex,    \* the vertex popped from the queue
  nbIndex,          \* position of the edge loop in neighbend[currentVertex]
  lastOp,           \* what the last step did (history)
  calls,            \* how often addBlossom, expandBlossom, augmentMatching and
                    \* the direct T-labelling ran in this call (history)
  run,              \* 1 for the first call of blossom(), 2 for a repeated call
  recording,        \* whether the steps of the calls are written to trace
  trace,            \* the states the current call went through (history)
  steps,            \* how many steps the current call has taken (history)
  previous          \* trace and outcome of the first call, once it is repeated

graphVars == <<edges, maxCardinality, nEdge, nVertex, maxWeight, endpoint, neighbend>>

engineVars ==
  <<mate, label, labelEnd, inBlossom, blossomParent, blossomChilds, blossomBase,
    blossomEndPs, bestEdge, blossomBestEdges, unusedBlossoms, dualVar, allowEdge, queue>>

loopVars == <<t, augmented, currentVertex, nbIndex>>

callVars == <<run, recording, previous>>

vars ==
  <<input, pc, error, result, graphVars, engineVars, loopVars, lastOp, calls,
    trace, steps, callVars>>

(* A JavaScript value: a number that is an integer, a non-integral finite  *)
(* number, an infinity, NaN, a string, or undefined (a missing element).   *)
Num(k) == [t |-> "int", v |-> k]

Frac == [t |-> "frac", v |-> 0]

Infinite == [t |-> "inf", v |-> 0]

NotANumber == [t |-> "nan", v |-> 0]

Str == [t |-> "string", v |-> 0]

Undefined == [t |-> "undefined", v |-> 0]

(* an element of the edge list: an array of values, or something else *)
Arr(elems) == [isArray |-> TRUE, el |-> elems]

NotArr == [isArray |-> FALSE, el |-> <<>>]

RawEdge(e) == Arr(<<Num(e[1]), Num(e[2]), Num(e[3])>>)

RawEdges(es) == [k \in 1..Len(es) |-> RawEdge(es[k])]

(* Number.isInteger(x) *)
IsInteger(x) == x.t = "int"

(* typeof x === 'number' && isFinite(x) *)
IsFiniteNumber(x) == x.t \in {"int", "frac"}

(* element i of a raw edge, undefined when missing *)
Elem(e, i) == IF i <= Len(e.el) THEN e.el[i] ELSE Undefined

(* the validation of an edge without the check of its weight *)
EdgeErrorWeightUnchecked(e) ==
  IF ~e.isArray \/ Len(e.el) # 3
    THEN "Each edge must be an array of [vertex1, vertex2, weight]"
  ELSE IF ~IsInteger(Elem(e, 1)) \/ ~IsInteger(Elem(e, 2))
          \/ Elem(e, 1).v < 0 \/ Elem(e, 2).v < 0
    THEN "Vertex indices must be non-negative integers"
  ELSE ""

(* The three checks of the validation loop, for one edge: the message of   *)
(* the Error it throws, "" when the edge passes.                           *)
EdgeError(e) ==
  IF ~e.isArray \/ Len(e.el) # 3
    THEN "Each edge must be an array of [vertex1, vertex2, weight]"
  ELSE IF ~IsInteger(Elem(e, 1)) \/ ~IsInteger(Elem(e, 2))
          \/ Elem(e, 1).v < 0 \/ Elem(e, 2).v < 0
    THEN "Vertex indices must be non-negative integers"
  ELSE IF ~IsFiniteNumber(Elem(e, 3))
    THEN "Edge weights must be finite numbers"
  ELSE ""

(* The validation loop: the message of the first edge that fails. *)
RECURSIVE ValidationError(_, _)
ValidationError(raw, k) ==
  IF k > Len(raw) THEN ""
  ELSE IF EdgeError(raw[k]) # "" THEN EdgeError(raw[k])
  ELSE ValidationError(raw, k + 1)

(* the validated edges as triples of integers *)
Triples(raw) == [k \in 1..Len(raw) |-> <<raw[k].el[1].v, raw[k].el[2].v, raw[k].el[3].v>>]

(* edge k (0-based) of the engine *)
Edge(k) == edges[k + 1]

----------------------------------------------------------------------------
(* Constructor of Edmonds.                                                 *)

RECURSIVE calculateVertexCountFrom(_, _)
calculateVertexCountFrom(es, k) ==
  IF k = 0 THEN 0
  ELSE Max2(calculateVertexCountFrom(es, k - 1), Max2(es[k][1] + 1, es[k][2] + 1))

(* 2 + the largest vertex id *)
countWithSpare(es) == calculateVertexCountFrom(es, Len(es)) + 1

calculateVertexCount(es) == calculateVertexCountFrom(es, Len(es))

(* the largest weight, without the floor of 0 *)
heaviestWeight(es) == CHOOSE w \in {es[k][3] : k \in 1..Len(es)} :
                        \A k \in 1..Len(es) : es[k][3] <= w

RECURSIVE calculateMaxWeightFrom(_, _)
calculateMaxWeightFrom(es, k) ==
  IF k = 0 THEN 0 ELSE Max2(calculateMaxWeightFrom(es, k - 1), es[k][3])

calculateMaxWeight(es) == calculateMaxWeightFrom(es, Len(es))

initEndpoint(es) ==
  [p \in 0..(EDGE_ENDPOINT_COUNT * Len(es) - 1) |->
     es[(p \div EDGE_ENDPOINT_COUNT) + 1][(p % EDGE_ENDPOINT_COUNT) + 1]]

(* neighbend[v]: for k = 0..nEdge-1 in order, 2k+1 if v = i and 2k if v = j *)
RECURSIVE initNeighbendOf(_, _, _)
initNeighbendOf(es, v, k) ==
  IF k = 0 THEN <<>>
  ELSE initNeighbendOf(es, v, k - 1)
       \o (IF es[k][1] = v THEN <<EDGE_ENDPOINT_COUNT * (k - 1) + 1>> ELSE <<>>)
       \o (IF es[k][2] = v THEN <<EDGE_ENDPOINT_COUNT * (k - 1)>> ELSE <<>>)

initNeighbend(es, n) == [v \in 0..(n - 1) |-> initNeighbendOf(es, v, Len(es))]

----------------------------------------------------------------------------
(* The mutable arrays of the engine as one record, so that the methods of  *)
(* Edmonds are operators from record to record.  hung is set when a walk   *)
(* of a method revisits a position, that is, when the loop never ends.     *)
(* strayLabel is set when assignLabel is entered with arguments outside    *)
(* what its body expects (history).                                        *)

Engine ==
  [mate |-> mate, label |-> label, labelEnd |-> labelEnd, inBlossom |-> inBlossom,
   blossomParent |-> blossomParent, blossomChilds |-> blossomChilds,
   blossomBase |-> blossomBase, blossomEndPs |-> blossomEndPs, bestEdge |-> bestEdge,
   blossomBestEdges |-> blossomBestEdges, unusedBlossoms |-> unusedBlossoms,
   dualVar |-> dualVar, allowEdge |-> allowEdge, queue |-> queue, hung |-> FALSE,
   strayLabel |-> FALSE]

(* A walk along labelEnd / inBlossom that takes more steps than there are  *)
(* blossom ids has come back to a blossom it left: it repeats forever.     *)
WalkLimit == BLOSSOM_MULTIPLIER * nVertex + 2

getOppositeEndpoint(endpointIndex) == XorOne(endpointIndex)

getEdgeFromEndpoint(endpointIndex) == endpointIndex \div EDGE_ENDPOINT_COUNT

hasVertexLabel(s, vertex, labelType) == Get(s.label, Get(s.inBlossom, vertex)) = labelType

isUnlabeledVertex(s, vertex) == hasVertexLabel(s, vertex, UNLABELED)

isSVertex(s, vertex) == hasVertexLabel(s, vertex, VERTEX_LABEL_S)

isTVertex(s, vertex) == hasVertexLabel(s, vertex, VERTEX_LABEL_T)

slack(s, edgeIndex) ==
  s.dualVar[Edge(edgeIndex)[1]] + s.dualVar[Edge(edgeIndex)[2]] - 2 * Edge(edgeIndex)[3]

RECURSIVE blossomLeaves(_, _)
RECURSIVE childLeaves(_, _, _)
(* the loop of blossomLeaves over childList, from position i *)
childLeaves(s, childList, i) ==
  IF i > Len(childList) THEN <<>>
  ELSE (IF childList[i] <= nVertex THEN <<childList[i]>> ELSE blossomLeaves(s, childList[i]))
       \o childLeaves(s, childList, i + 1)

blossomLeaves(s, b) ==
  IF b # UNDEF /\ b < nVertex THEN <<b>>
  ELSE childLeaves(s, IF b \in DOMAIN s.blossomChilds THEN s.blossomChilds[b] ELSE <<>>, 1)

(* the label is written for the blossom only, not for the vertex reached *)
labelBlossomOnly(s, blossom, vertex, labelType, labelingEdge) ==
  [s EXCEPT !.label = Put(@, blossom, labelType),
            !.labelEnd = Put(@, blossom, labelingEdge),
            !.bestEdge = Put(@, blossom, UNMATCHED)]

(* the three assignments at the head of assignLabel: label, labelEnd and   *)
(* bestEdge of the vertex and of its top-level blossom                     *)
labelBoth(s, blossom, vertex, labelType, labelingEdge) ==
  [s EXCEPT !.label = Put(Put(@, blossom, labelType), vertex, labelType),
            !.labelEnd = Put(Put(@, blossom, labelingEdge), vertex, labelingEdge),
            !.bestEdge = Put(Put(@, blossom, UNMATCHED), vertex, UNMATCHED)]

(* What the body of assignLabel takes for granted at its entry: vertex is  *)
(* a vertex id, neither it nor its top-level blossom has a label, and for  *)
(* a T label the base of the blossom has a mate, which the recursive call  *)
(* reads.                                                                  *)
labelExpected(s, vertex, labelType) ==
  /\ vertex \in 0..(nVertex - 1)
  /\ s.label[vertex] = UNLABELED
  /\ s.label[s.inBlossom[vertex]] = UNLABELED
  /\ labelType = VERTEX_LABEL_T => s.mate[s.blossomBase[s.inBlossom[vertex]]] >= 0

(* the entry of assignLabel, noted in strayLabel when it is not as expected *)
labelEntered(s, vertex, labelType) ==
  IF labelExpected(s, vertex, labelType) THEN s ELSE [s EXCEPT !.strayLabel = TRUE]

RECURSIVE assignLabel(_, _, _, _)
assignLabel(s, vertex, labelType, labelingEdge) ==
  LET blossom == Get(s.inBlossom, vertex)
      s1 == labelBoth(labelEntered(s, vertex, labelType), blossom, vertex, labelType,
                      labelingEdge)
  IN IF labelType = VERTEX_LABEL_S
       THEN [s1 EXCEPT !.queue = @ \o blossomLeaves(s1, blossom)]
     ELSE IF labelType = VERTEX_LABEL_T
       THEN LET baseVertex == Get(s1.blossomBase, blossom)
                m == Get(s1.mate, baseVertex)
            IN assignLabel(s1, Get(endpoint, m), VERTEX_LABEL_S, getOppositeEndpoint(m))
     ELSE s1

(* The loop of scanBlossom: current1 / current2 are the two walks, path    *)
(* the blossoms marked so far.  Yields the base found and the engine with  *)
(* the marks still set.                                                    *)
RECURSIVE scanLoop(_, _, _, _, _)
scanLoop(s, current1, current2, path, fuel) ==
  IF current1 = NULL /\ current2 = NULL THEN [base |-> UNMATCHED, s |-> s, path |-> path]
  ELSE IF fuel = 0 THEN [base |-> UNMATCHED, s |-> [s EXCEPT !.hung = TRUE], path |-> path]
  ELSE
    LET blossom == IF current1 # NULL THEN Get(s.inBlossom, current1)
                   ELSE Get(s.inBlossom, current2)
        c2 == IF current1 # NULL THEN current2 ELSE NULL
    IN IF HasBit4(Get(s.label, blossom))
         THEN [base |-> Get(s.blossomBase, blossom), s |-> s, path |-> path]
       ELSE
         LET s1 == [s EXCEPT !.label = Put(@, blossom, BREADCRUMB)]
             c1 == IF Get(s1.labelEnd, blossom) = UNMATCHED THEN NULL
                   ELSE LET up == Get(endpoint, Get(s1.labelEnd, blossom))
                        IN Get(endpoint, Get(s1.labelEnd, Get(s1.inBlossom, up)))
         IN IF c2 # NULL
              THEN scanLoop(s1, c2, c1, Append(path, blossom), fuel - 1)
              ELSE scanLoop(s1, c1, c2, Append(path, blossom), fuel - 1)

(* path.forEach(blossomIndex => label[blossomIndex] = VERTEX_LABEL_S) *)
RECURSIVE restoreLabels(_, _, _)
restoreLabels(lab, path, i) ==
  IF i > Len(path) THEN lab
  ELSE restoreLabels(Put(lab, path[i], VERTEX_LABEL_S), path, i + 1)

(* the end of scanBlossom without the restoring loop: the marks stay *)
unmarkPathKept(r) == [base |-> r.base, s |-> r.s]

(* the end of scanBlossom: the marks of the walk r become S again *)
unmarkPath(r) ==
  [base |-> r.base, s |-> [r.s EXCEPT !.label = restoreLabels(@, r.path, 1)]]

(* scanBlossom(vertex1, vertex2): the base (UNMATCHED for an augmenting    *)
(* path) and the engine after the marks are restored.                      *)
scanBlossom(s, vertex1, vertex2) ==
  unmarkPath(scanLoop(s, vertex1, vertex2, <<>>, BLOSSOM_MULTIPLIER * WalkLimit))

----------------------------------------------------------------------------
(* addBlossom                                                              *)

(* One of the two branch walks of addBlossom, from blossom cur up to       *)
(* baseBlossom: sets blossomParent, collects path and endPs (the endpoint  *)
(* itself on the v side, its opposite on the w side).                      *)
RECURSIVE branchWalk(_, _, _, _, _, _, _, _)
branchWalk(s, cur, baseBlossom, b, path, endPs, wSide, fuel) ==
  IF cur = baseBlossom THEN [s |-> s, path |-> path, endPs |-> endPs]
  ELSE IF fuel = 0 THEN [s |-> [s EXCEPT !.hung = TRUE], path |-> path, endPs |-> endPs]
  ELSE branchWalk([s EXCEPT !.blossomParent = Put(@, cur, b)],
                  Get(s.inBlossom, Get(endpoint, Get(s.labelEnd, cur))),
                  baseBlossom, b,
                  Append(path, cur),
                  Append(endPs, IF wSide THEN getOppositeEndpoint(Get(s.labelEnd, cur))
                                ELSE Get(s.labelEnd, cur)),
                  wSide, fuel - 1)

(* leaves.forEach without the push: inBlossom = b, no leaf is queued *)
relabelLeavesUnqueued(s, leaves, b, i) ==
  [s EXCEPT !.inBlossom =
     [x \in DOMAIN s.inBlossom |->
        IF \E j \in i..Len(leaves) : leaves[j] = x THEN b ELSE s.inBlossom[x]]]

(* leaves.forEach: a leaf of a former T-blossom is queued; inBlossom = b *)
RECURSIVE relabelLeaves(_, _, _, _)
relabelLeaves(s, leaves, b, i) ==
  IF i > Len(leaves) THEN s
  ELSE LET vertex == leaves[i]
           s1 == IF Get(s.label, Get(s.inBlossom, vertex)) = VERTEX_LABEL_T
                 THEN [s EXCEPT !.queue = Append(@, vertex)] ELSE s
       IN relabelLeaves([s1 EXCEPT !.inBlossom = Put(@, vertex, b)], leaves, b, i + 1)

(* the edge lists examined for the child bv of the new blossom, in order:  *)
(* the edges of every leaf when bv has no list of best edges, else that    *)
(* list                                                                    *)
RECURSIVE leafEdges(_, _)
leafEdges(leaves, i) ==
  IF i > Len(leaves) THEN <<>>
  ELSE [q \in 1..Len(neighbend[leaves[i]]) |-> getEdgeFromEndpoint(neighbend[leaves[i]][q])]
       \o leafEdges(leaves, i + 1)

nbEdges(s, bv) ==
  IF Len(s.blossomBestEdges[bv]) = 0 THEN leafEdges(blossomLeaves(s, bv), 1)
  ELSE s.blossomBestEdges[bv]

(* nbList.forEach(edgeK => ...): the least-slack edge to each S-blossom *)
RECURSIVE scanBestEdges(_, _, _, _, _)
scanBestEdges(s, b, nbList, bestEdgeTo, i) ==
  IF i > Len(nbList) THEN bestEdgeTo
  ELSE
    LET edgeK == nbList[i]
        j == IF s.inBlossom[Edge(edgeK)[2]] = b THEN Edge(edgeK)[1] ELSE Edge(edgeK)[2]
        bj == s.inBlossom[j]
    IN scanBestEdges(s, b, nbList,
         IF bj # b /\ s.label[bj] = VERTEX_LABEL_S
            /\ (bestEdgeTo[bj] = UNMATCHED \/ slack(s, edgeK) < slack(s, bestEdgeTo[bj]))
         THEN [bestEdgeTo EXCEPT ![bj] = edgeK] ELSE bestEdgeTo,
         i + 1)

(* path.forEach(bv => ...) *)
RECURSIVE collectBestEdges(_, _, _, _, _)
collectBestEdges(s, b, path, bestEdgeTo, i) ==
  IF i > Len(path) THEN [s |-> s, bestEdgeTo |-> bestEdgeTo]
  ELSE
    LET bv == path[i]
        to == scanBestEdges(s, b, nbEdges(s, bv), bestEdgeTo, 1)
    IN collectBestEdges([s EXCEPT !.blossomBestEdges[bv] = <<>>, !.bestEdge[bv] = UNMATCHED],
                        b, path, to, i + 1)

(* bestEdgeTo.filter(edgeK => edgeK !== UNMATCHED) *)
RECURSIVE filterMatched(_, _, _)
filterMatched(a, i, len) ==
  IF i >= len THEN <<>>
  ELSE (IF a[i] # UNMATCHED THEN <<a[i]>> ELSE <<>>) \o filterMatched(a, i + 1, len)

(* blossomBestEdges[b].reduce(...): the first edge of least slack *)
RECURSIVE reduceBest(_, _, _, _)
reduceBest(s, list, best, i) ==
  IF i > Len(list) THEN best
  ELSE reduceBest(s, list,
                  IF best = UNMATCHED \/ slack(s, list[i]) < slack(s, best) THEN list[i] ELSE best,
                  i + 1)

(* the new blossom b gets its best edges: the list, and the least of it *)
setBestEdges(c, b) ==
  LET be == filterMatched(c.bestEdgeTo, 0, 2 * nVertex)
  IN [c.s EXCEPT !.blossomBestEdges[b] = be,
                 !.bestEdge[b] = reduceBest(c.s, be, UNMATCHED, 1)]

(* the leaves of the new blossom b are relabelled, then the best edges of  *)
(* its children are merged                                                 *)
absorbChilds(s1, b, path) ==
  setBestEdges(collectBestEdges(relabelLeaves(s1, blossomLeaves(s1, b), b, 1), b, path,
                                filledArray(2 * nVertex, UNMATCHED), 1),
               b)

(* the cycle ww found by the two branch walks becomes the S-blossom b *)
closeCycle(ww, b, baseBlossom) ==
  IF ww.s.hung THEN ww.s
  ELSE absorbChilds([ww.s EXCEPT !.blossomChilds[b] = ww.path,
                                 !.blossomEndPs[b] = ww.endPs,
                                 !.label[b] = VERTEX_LABEL_S,
                                 !.labelEnd[b] = ww.s.labelEnd[baseBlossom],
                                 !.dualVar[b] = 0],
                    b, ww.path)

(* the walk from w, after the walk vw from v: the path so far is reversed  *)
(* and the endpoint of edge k is put at the seam                           *)
wBranch(vw, wBlossom, baseBlossom, b, k) ==
  branchWalk(vw.s, wBlossom, baseBlossom, b,
             Reverse(Append(vw.path, baseBlossom)),
             Append(Reverse(vw.endPs), EDGE_ENDPOINT_COUNT * k),
             TRUE, WalkLimit)

addBlossom(s, base, k) ==
  LET v == Edge(k)[1]
      w == Edge(k)[2]
      baseBlossom == s.inBlossom[base]
      vBlossom == s.inBlossom[v]
      wBlossom == s.inBlossom[w]
      b == s.unusedBlossoms[Len(s.unusedBlossoms)]
  IN closeCycle(
       wBranch(branchWalk([s EXCEPT !.unusedBlossoms = SubSeq(@, 1, Len(@) - 1),
                                    !.blossomBase[b] = base,
                                    !.blossomParent = [@ EXCEPT ![b] = UNMATCHED,
                                                                ![baseBlossom] = b]],
                          vBlossom, baseBlossom, b, <<>>, <<>>, FALSE, WalkLimit),
               wBlossom, baseBlossom, b, k),
       b, baseBlossom)

----------------------------------------------------------------------------
(* expandBlossom                                                           *)

(* the leaves of a detached sub-blossom keep the inBlossom they had *)
setInBlossomKept(inb, leaves, child, i) == inb

(* leaves.forEach(v => inBlossom[v] = s) *)
RECURSIVE setInBlossom(_, _, _, _)
setInBlossom(inb, leaves, child, i) ==
  IF i > Len(leaves) THEN inb
  ELSE setInBlossom(Put(inb, leaves[i], child), leaves, child, i + 1)

(* x ^ bit for bit in {0, 1} *)
XorBit(x, bit) == IF bit = 1 THEN XorOne(x) ELSE x

(* leaves.find(vertex => label[vertex] !== UNLABELED) ?? UNMATCHED *)
RECURSIVE findLabelled(_, _, _)
findLabelled(s, leaves, i) ==
  IF i > Len(leaves) THEN UNMATCHED
  ELSE IF Get(s.label, leaves[i]) # UNLABELED THEN leaves[i]
  ELSE findLabelled(s, leaves, i + 1)

(* The first walk of a mid-search expansion: from the entry child to the   *)
(* base child (position 0), two children at a time.                        *)
RECURSIVE relabelPath(_, _, _, _, _, _, _)
relabelPath(s, b, j, p, jStep, endpTrick, fuel) ==
  IF j = 0 THEN [s |-> s, p |-> p]
  ELSE IF fuel = 0 THEN [s |-> [s EXCEPT !.hung = TRUE], p |-> p]
  ELSE
    LET endPs == s.blossomEndPs[b]
        q == At(endPs, j - endpTrick)
        s1 == [s EXCEPT !.label = Put(Put(@, Get(endpoint, getOppositeEndpoint(p)), UNLABELED),
                                      Get(endpoint, XorBit(XorBit(q, endpTrick), 1)), UNLABELED)]
        s2 == assignLabel(s1, Get(endpoint, getOppositeEndpoint(p)), VERTEX_LABEL_T, p)
        s3 == [s2 EXCEPT !.allowEdge[getEdgeFromEndpoint(q)] = TRUE]
        p1 == XorBit(At(endPs, j + jStep - endpTrick), endpTrick)
        s4 == [s3 EXCEPT !.allowEdge[getEdgeFromEndpoint(p1)] = TRUE]
    IN relabelPath(s4, b, j + 2 * jStep, p1, jStep, endpTrick, fuel - 1)

(* The second walk: the children that are not on the path, from the base   *)
(* child onwards until the entry child is met again.                       *)
RECURSIVE relabelRest(_, _, _, _, _, _)
relabelRest(s, b, entryChild, j, jStep, fuel) ==
  IF At(s.blossomChilds[b], j) = entryChild THEN s
  ELSE IF fuel = 0 THEN [s EXCEPT !.hung = TRUE]
  ELSE
    LET currentBv == At(s.blossomChilds[b], j)
    IN IF Get(s.label, currentBv) = VERTEX_LABEL_S
         THEN relabelRest(s, b, entryChild, j + jStep, jStep, fuel - 1)
       ELSE
         LET v == findLabelled(s, blossomLeaves(s, currentBv), 1)
             s1 == IF Get(s.label, v) # UNLABELED
                   THEN LET l1 == Put(s.label, v, UNLABELED)
                            l2 == Put(l1, Get(endpoint, Get(s.mate, Get(s.blossomBase, currentBv))),
                                      UNLABELED)
                        IN assignLabel([s EXCEPT !.label = l2], v, VERTEX_LABEL_T,
                                       Get(s.labelEnd, v))
                   ELSE s
         IN relabelRest(s1, b, entryChild, j + jStep, jStep, fuel - 1)

RECURSIVE expandBlossom(_, _, _)
RECURSIVE detachChilds(_, _, _, _)
(* blossomChilds[b].forEach(s => ...) *)
detachChilds(s, childs, endStage, i) ==
  IF i > Len(childs) THEN s
  ELSE
    LET c == childs[i]
        s1 == [s EXCEPT !.blossomParent[c] = UNMATCHED]
        s2 == IF c < nVertex THEN [s1 EXCEPT !.inBlossom[c] = c]
              ELSE IF endStage /\ s1.dualVar[c] = 0 THEN expandBlossom(s1, c, endStage)
              ELSE [s1 EXCEPT !.inBlossom = setInBlossom(@, blossomLeaves(s1, c), c, 1)]
    IN detachChilds(s2, childs, endStage, i + 1)

(* after the first walk r: the base child and the vertex through which it *)
(* is entered become T, then the second walk                               *)
relabelBase(r, b, childs, entryChild, jStep) ==
  LET p == r.p
      bv == At(childs, 0)
      top == Get(endpoint, getOppositeEndpoint(p))
  IN IF r.s.hung THEN r.s
     ELSE relabelRest([r.s EXCEPT !.label = Put(Put(@, bv, VERTEX_LABEL_T), top, VERTEX_LABEL_T),
                                  !.labelEnd = Put(Put(@, bv, p), top, p),
                                  !.bestEdge[bv] = UNMATCHED],
                      b, entryChild, jStep, jStep, Len(childs) + 1)

(* the relabelling of a T-blossom expanded in mid-search *)
relabelExpanded(s, b) ==
  LET childs == s.blossomChilds[b]
      entryChild == Get(s.inBlossom, Get(endpoint, getOppositeEndpoint(s.labelEnd[b])))
      j0 == IndexOf(childs, entryChild)
      odd == j0 % 2 = 1
      jStep == IF odd THEN 1 ELSE -1
  IN relabelBase(relabelPath(s, b, IF odd THEN j0 - Len(childs) ELSE j0, s.labelEnd[b],
                             jStep, IF odd THEN 0 ELSE 1, Len(childs) + 1),
                 b, childs, entryChild, jStep)

(* the relabelling applies to a T-blossom expanded in mid-search only *)
relabelIfT(s1, b, endStage) ==
  IF ~endStage /\ s1.label[b] = VERTEX_LABEL_T THEN relabelExpanded(s1, b) ELSE s1

(* the fields of b are cleared, its id is not given back to the free list *)
recycleBlossomLost(s2, b) ==
  [s2 EXCEPT !.label[b] = UNMATCHED,
             !.labelEnd[b] = UNMATCHED,
             !.blossomEndPs[b] = <<>>,
             !.blossomChilds[b] = <<>>,
             !.blossomBase[b] = UNMATCHED,
             !.blossomBestEdges[b] = <<>>,
             !.bestEdge[b] = UNMATCHED]

(* the end of expandBlossom: the fields of b are cleared, b is free again *)
recycleBlossom(s2, b) ==
  [s2 EXCEPT !.label[b] = UNMATCHED,
             !.labelEnd[b] = UNMATCHED,
             !.blossomEndPs[b] = <<>>,
             !.blossomChilds[b] = <<>>,
             !.blossomBase[b] = UNMATCHED,
             !.blossomBestEdges[b] = <<>>,
             !.bestEdge[b] = UNMATCHED,
             !.unusedBlossoms = Append(@, b)]

expandBlossom(s, b, endStage) ==
  recycleBlossom(relabelIfT(detachChilds(s, s.blossomChilds[b], endStage, 1), b, endStage), b)

----------------------------------------------------------------------------
(* augmentBlossom and augmentMatching                                      *)

(* while (blossomParent[currentBlossom] !== b) currentBlossom = parent:    *)
(* the child of b that contains v; NULL if the walk never reaches b        *)
RECURSIVE childContaining(_, _, _, _)
childContaining(s, b, currentBlossom, fuel) ==
  IF Get(s.blossomParent, currentBlossom) = b THEN currentBlossom
  ELSE IF fuel = 0 THEN NULL
  ELSE childContaining(s, b, Get(s.blossomParent, currentBlossom), fuel - 1)

(* slice(baseIndex).concat(slice(0, baseIndex)) *)
Rotate(list, baseIndex) == SubSeq(list, baseIndex + 1, Len(list)) \o SubSeq(list, 1, baseIndex)

RECURSIVE augmentBlossom(_, _, _)

(* if (childBlossom >= nVertex) augmentBlossom(childBlossom, v) *)
augmentChild(s, childBlossom, v) ==
  IF childBlossom >= nVertex THEN augmentBlossom(s, childBlossom, v) ELSE s

(* the second child of a step around the cycle, read after the first has   *)
(* been augmented                                                          *)
augmentSecond(s1, b, j2, p) ==
  augmentChild(s1, At(s1.blossomChilds[b], j2), endpoint[getOppositeEndpoint(p)])

(* the two children, joined by the edge of endpoint p, get matched *)
matchPair(s2, p) ==
  [s2 EXCEPT !.mate = [[@ EXCEPT ![endpoint[p]] = getOppositeEndpoint(p)]
                         EXCEPT ![endpoint[getOppositeEndpoint(p)]] = p]]

RECURSIVE augmentCycle(_, _, _, _, _, _)
(* the loop of augmentBlossom around the cycle, two children at a time *)
augmentCycle(s, b, childIndex, jStep, endpTrick, fuel) ==
  IF childIndex = 0 \/ s.hung THEN s
  ELSE IF fuel = 0 THEN [s EXCEPT !.hung = TRUE]
  ELSE
    LET j1 == childIndex + jStep
        p == XorBit(At(s.blossomEndPs[b], j1 - endpTrick), endpTrick)
    IN augmentCycle(
         matchPair(augmentSecond(augmentChild(s, At(s.blossomChilds[b], j1), endpoint[p]),
                                 b, j1 + jStep, p),
                   p),
         b, j1 + jStep, jStep, endpTrick, fuel - 1)

(* the end of augmentBlossom with blossomEndPs left as it was *)
rotateChildsOnly(s2, b, baseIndex) ==
  IF s2.hung THEN s2
  ELSE [s2 EXCEPT !.blossomChilds[b] = Rotate(@, baseIndex),
                  !.blossomBase[b] = s2.blossomBase[Rotate(s2.blossomChilds[b], baseIndex)[1]]]

(* the end of augmentBlossom: the lists of b are rotated, the base is that *)
(* of the first child                                                      *)
rotateBlossom(s2, b, baseIndex) ==
  IF s2.hung THEN s2
  ELSE [s2 EXCEPT !.blossomChilds[b] = Rotate(@, baseIndex),
                  !.blossomEndPs[b] = Rotate(@, baseIndex),
                  !.blossomBase[b] = s2.blossomBase[Rotate(s2.blossomChilds[b], baseIndex)[1]]]

(* augmentBlossom once the child currentBlossom of b that contains v has   *)
(* been augmented                                                          *)
augmentAround(s1, b, currentBlossom) ==
  LET baseIndex == IndexOf(s1.blossomChilds[b], currentBlossom)
      odd == baseIndex % 2 = 1
  IN rotateBlossom(augmentCycle(s1, b,
                                IF odd THEN baseIndex - Len(s1.blossomChilds[b]) ELSE baseIndex,
                                IF odd THEN 1 ELSE -1, IF odd THEN 0 ELSE 1,
                                Len(s1.blossomChilds[b]) + 1),
                   b, baseIndex)

(* augmentBlossom from the child currentBlossom of b that contains v *)
augmentFrom(s, b, v, currentBlossom) ==
  IF currentBlossom = NULL THEN [s EXCEPT !.hung = TRUE]
  ELSE augmentAround(IF currentBlossom > nVertex THEN augmentBlossom(s, currentBlossom, v)
                     ELSE s,
                     b, currentBlossom)

augmentBlossom(s, b, v) == augmentFrom(s, b, v, childContaining(s, b, v, WalkLimit))

RECURSIVE augmentWalk(_, _, _, _)

(* the blossom of the S-vertex sv is augmented, mate[sv] is left alone *)
augmentSUnmatched(s, sv, p) == augmentChild(s, s.inBlossom[sv], sv)

(* the S-vertex sv of the walk: its blossom is augmented, mate[s] = p *)
augmentS(s, sv, p) ==
  [augmentChild(s, s.inBlossom[sv], sv) EXCEPT !.mate[sv] = p]

(* the T-vertex j left with the mate it had *)
matchTSkipped(s3, j, bt) == s3

(* mate[j] = labelEnd[bt] *)
matchT(s3, j, bt) == [s3 EXCEPT !.mate[j] = s3.labelEnd[bt]]

(* the walk goes on from the S-vertex beyond the T-blossom bt *)
augmentNext(s4, next, bt, fuel) ==
  augmentWalk(s4, next, getOppositeEndpoint(s4.labelEnd[bt]), fuel)

(* the T-blossom above the S-blossom bs, unless bs is the root of its tree *)
augmentT(s2, bs, fuel) ==
  IF s2.labelEnd[bs] = UNMATCHED THEN s2
  ELSE
    LET tv == endpoint[s2.labelEnd[bs]]
        bt == s2.inBlossom[tv]
        j == endpoint[getOppositeEndpoint(s2.labelEnd[bt])]
    IN augmentNext(matchT(augmentChild(s2, bt, j), j, bt),
                   endpoint[s2.labelEnd[bt]], bt, fuel)

(* the while (true) loop of augmentMatching from the S-vertex sv, matched  *)
(* through endpoint p, up to the root of its tree                          *)
augmentWalk(s, sv, p, fuel) ==
  IF s.hung THEN s
  ELSE IF fuel = 0 THEN [s EXCEPT !.hung = TRUE]
  ELSE augmentT(augmentS(s, sv, p), s.inBlossom[sv], fuel - 1)

augmentMatching(s, k) ==
  augmentWalk(augmentWalk(s, Edge(k)[1], EDGE_ENDPOINT_COUNT * k + 1, WalkLimit),
              Edge(k)[2], EDGE_ENDPOINT_COUNT * k, WalkLimit)

----------------------------------------------------------------------------
(* maxWeightMatching: the pieces of one stage                              *)

(* PHASE 1: every unmatched vertex whose blossom is unlabeled becomes a root *)
RECURSIVE labelRoots(_, _)
labelRoots(s, v) ==
  IF v >= nVertex THEN s
  ELSE labelRoots(IF s.mate[v] = UNMATCHED /\ s.label[s.inBlossom[v]] = UNLABELED
                  THEN assignLabel(s, v, VERTEX_LABEL_S, UNMATCHED) ELSE s,
                  v + 1)

(* the reset at the top of a stage, then PHASE 1 *)
startStage(s) ==
  labelRoots([s EXCEPT !.label = filledArray(BLOSSOM_MULTIPLIER * nVertex, UNLABELED),
                       !.bestEdge = filledArray(BLOSSOM_MULTIPLIER * nVertex, UNMATCHED),
                       !.blossomBestEdges = initArrArr(BLOSSOM_MULTIPLIER * nVertex),
                       !.allowEdge = filledArray(nEdge, FALSE),
                       !.queue = <<>>],
             0)

(* the vertex inside a T-blossom is never labelled directly *)
neverReached(s, adjacentVertex) == FALSE

(* else if (label[adjacentVertex] === UNLABELED): a vertex inside a        *)
(* T-blossom that has no label of its own yet                              *)
reachedUnlabeled(s, adjacentVertex) == s.label[adjacentVertex] = UNLABELED

(* what the body of the edge loop does with edgeEndpoint: the name of the  *)
(* branch taken                                                            *)
edgeCase(s, cv, edgeEndpoint) ==
  LET edgeIndex == getEdgeFromEndpoint(edgeEndpoint)
      adjacentVertex == endpoint[edgeEndpoint]
      allowed == s.allowEdge[edgeIndex] \/ slack(s, edgeIndex) <= 0
  IN IF s.inBlossom[cv] = s.inBlossom[adjacentVertex] THEN "skip"
     ELSE IF allowed THEN
       (IF isUnlabeledVertex(s, adjacentVertex) THEN "labelT"
        ELSE IF isSVertex(s, adjacentVertex)
          THEN (IF scanBlossom(s, cv, adjacentVertex).base >= 0 THEN "addBlossom"
                ELSE "augment")
        ELSE IF reachedUnlabeled(s, adjacentVertex) THEN "directT"
        ELSE "none")
     ELSE IF isSVertex(s, adjacentVertex) THEN "bestEdgeS"
     ELSE IF s.label[adjacentVertex] = UNLABELED THEN "bestEdgeFree"
     ELSE "none"

(* addBlossom(base, edgeIndex) with the base that scanBlossom returned *)
addBlossomAt(r, edgeIndex) == addBlossom(r.s, r.base, edgeIndex)

(* the branch case of the body of the edge loop, on the engine s1 in which *)
(* the edge is allowed if it is tight                                      *)
edgeBranch(s1, cv, edgeEndpoint, case) ==
  LET edgeIndex == getEdgeFromEndpoint(edgeEndpoint)
      adjacentVertex == endpoint[edgeEndpoint]
      currentBlossom == s1.inBlossom[cv]
  IN CASE case = "labelT" ->
            assignLabel(s1, adjacentVertex, VERTEX_LABEL_T, getOppositeEndpoint(edgeEndpoint))
       [] case = "addBlossom" ->
            addBlossomAt(scanBlossom(s1, cv, adjacentVertex), edgeIndex)
       [] case = "augment" ->
            augmentMatching(scanBlossom(s1, cv, adjacentVertex).s, edgeIndex)
       [] case = "directT" ->
            [s1 EXCEPT !.label[adjacentVertex] = VERTEX_LABEL_T,
                       !.labelEnd[adjacentVertex] = getOppositeEndpoint(edgeEndpoint)]
       [] case = "bestEdgeS" ->
            IF s1.bestEdge[currentBlossom] = UNMATCHED
               \/ slack(s1, edgeIndex) < slack(s1, s1.bestEdge[currentBlossom])
            THEN [s1 EXCEPT !.bestEdge[currentBlossom] = edgeIndex] ELSE s1
       [] case = "bestEdgeFree" ->
            IF s1.bestEdge[adjacentVertex] = UNMATCHED
               \/ slack(s1, edgeIndex) < slack(s1, s1.bestEdge[adjacentVertex])
            THEN [s1 EXCEPT !.bestEdge[adjacentVertex] = edgeIndex] ELSE s1
       [] OTHER -> s1

(* if (!allowEdge[edgeIndex]) { if (slack(edgeIndex) <= 0) allowEdge[edgeIndex] = true } *)
allowTight(s, edgeIndex) ==
  IF ~s.allowEdge[edgeIndex] /\ slack(s, edgeIndex) <= 0
  THEN [s EXCEPT !.allowEdge[edgeIndex] = TRUE] ELSE s

(* the body of the edge loop of PHASE 2 for one endpoint of neighbend[cv], *)
(* taking the branch case                                                  *)
examineEdge(s, cv, edgeEndpoint, case) ==
  IF case = "skip" THEN s
  ELSE edgeBranch(allowTight(s, getEdgeFromEndpoint(edgeEndpoint)), cv, edgeEndpoint, case)

----------------------------------------------------------------------------
(* PHASE 3: the choice of delta.  The candidates are compared as twice     *)
(* their value (delta2), so that the half slack of Type 3 is exact.        *)

noDelta ==
  [deltaType |-> DELTA_TYPE_NONE, delta2 |-> 0, deltaEdge |-> UNMATCHED,
   deltaBlossom |-> UNMATCHED]

(* Type 1 left out in both modes *)
deltaType1Never(s) == noDelta

(* Type 1 offered in both modes *)
deltaType1Always(s) ==
  [noDelta EXCEPT !.deltaType = DELTA_TYPE_DUAL_DECREASE,
                  !.delta2 = 2 * getMin(s.dualVar, 0, nVertex - 1)]

(* if (!maxCardinality): Type 1, the least vertex dual *)
deltaType1(s) ==
  IF ~maxCardinality
  THEN [noDelta EXCEPT !.deltaType = DELTA_TYPE_DUAL_DECREASE,
                       !.delta2 = 2 * getMin(s.dualVar, 0, nVertex - 1)]
  ELSE noDelta

(* A scan "for (x = from; x < to; x++) if (cand(x) && (deltaType === NONE  *)
(* || value(x) < delta)) {...}": the first index with the least value wins *)
(* when that value is below the running delta.                             *)
firstLeast(cands, val(_)) ==
  CHOOSE x \in cands :
    \A y \in cands : val(x) < val(y) \/ (val(x) = val(y) /\ x <= y)

(* Type 2 with "<=" for "<": a later candidate wins a tie *)
deltaType2OnTies(s, d) ==
  LET cands == {v \in 0..(nVertex - 1) :
                  isUnlabeledVertex(s, v) /\ s.bestEdge[v] # UNMATCHED}
      val(v) == 2 * slack(s, s.bestEdge[v])
  IN IF cands = {} THEN d
     ELSE LET v == firstLeast(cands, val)
          IN IF d.deltaType = DELTA_TYPE_NONE \/ val(v) <= d.delta2
             THEN [d EXCEPT !.delta2 = val(v),
                            !.deltaType = DELTA_TYPE_EDGE_SLACK,
                            !.deltaEdge = s.bestEdge[v]]
             ELSE d

(* Type 2: the best edge of every unlabeled vertex *)
deltaType2(s, d) ==
  LET cands == {v \in 0..(nVertex - 1) :
                  isUnlabeledVertex(s, v) /\ s.bestEdge[v] # UNMATCHED}
      val(v) == 2 * slack(s, s.bestEdge[v])
  IN IF cands = {} THEN d
     ELSE LET v == firstLeast(cands, val)
          IN IF d.deltaType = DELTA_TYPE_NONE \/ val(v) < d.delta2
             THEN [d EXCEPT !.delta2 = val(v),
                            !.deltaType = DELTA_TYPE_EDGE_SLACK,
                            !.deltaEdge = s.bestEdge[v]]
             ELSE d

(* Type 3: half the slack of the best edge of every top-level S-blossom *)
deltaType3(s, d) ==
  LET cands == {b \in 0..(BLOSSOM_MULTIPLIER * nVertex - 1) :
                  /\ s.blossomParent[b] = UNMATCHED
                  /\ s.label[b] = VERTEX_LABEL_S
                  /\ s.bestEdge[b] # UNMATCHED}
      val(b) == slack(s, s.bestEdge[b])
  IN IF cands = {} THEN d
     ELSE LET b == firstLeast(cands, val)
          IN IF d.deltaType = DELTA_TYPE_NONE \/ val(b) < d.delta2
             THEN [d EXCEPT !.delta2 = val(b),
                            !.deltaType = DELTA_TYPE_BLOSSOM_SLACK,
                            !.deltaEdge = s.bestEdge[b]]
             ELSE d

(* Type 4 left out: the duals of the T-blossoms do not bound delta *)
deltaType4Never(s, d) == d

(* Type 4: the dual of every top-level T-blossom *)
deltaType4(s, d) ==
  LET cands == {b \in nVertex..(nVertex * BLOSSOM_MULTIPLIER - 1) :
                  /\ s.blossomBase[b] >= 0
                  /\ s.blossomParent[b] = UNMATCHED
                  /\ s.label[b] = VERTEX_LABEL_T}
      val(b) == 2 * s.dualVar[b]
  IN IF cands = {} THEN d
     ELSE LET b == firstLeast(cands, val)
          IN IF d.deltaType = DELTA_TYPE_NONE \/ val(b) < d.delta2
             THEN [d EXCEPT !.delta2 = val(b),
                            !.deltaType = DELTA_TYPE_BLOSSOM_EXPAND,
                            !.deltaBlossom = b]
             ELSE d

(* the winner of the four scans, with the fallback to Type 1 *)
lastResort(s, d) ==
  IF d.deltaType = DELTA_TYPE_NONE
  THEN [d EXCEPT !.deltaType = DELTA_TYPE_DUAL_DECREASE,
                 !.delta2 = 2 * Max2(0, getMin(s.dualVar, 0, nVertex - 1))]
  ELSE d

chooseDelta(s) == lastResort(s, deltaType4(s, deltaType3(s, deltaType2(s, deltaType1(s)))))

(* PHASE 4 with the duals of the T-vertices left alone *)
applyDeltaToS(s, delta) ==
  [s EXCEPT !.dualVar =
     [x \in DOMAIN s.dualVar |->
        IF x < nVertex /\ s.label[s.inBlossom[x]] = VERTEX_LABEL_S
        THEN s.dualVar[x] - delta
        ELSE s.dualVar[x]]]

(* PHASE 4: the duals after delta is applied *)
applyDelta(s, delta) ==
  [s EXCEPT !.dualVar =
     [x \in DOMAIN s.dualVar |->
        IF x < nVertex
        THEN (IF s.label[s.inBlossom[x]] = VERTEX_LABEL_S THEN s.dualVar[x] - delta
              ELSE IF s.label[s.inBlossom[x]] = VERTEX_LABEL_T THEN s.dualVar[x] + delta
              ELSE s.dualVar[x])
        ELSE IF s.blossomBase[x] >= 0 /\ s.blossomParent[x] = UNMATCHED
        THEN (IF s.label[x] = VERTEX_LABEL_S THEN s.dualVar[x] + delta
              ELSE IF s.label[x] = VERTEX_LABEL_T THEN s.dualVar[x] - delta
              ELSE s.dualVar[x])
        ELSE s.dualVar[x]]]

(* PHASE 5 with the Type 2 action pushing the unlabeled end of the edge *)
deltaActionOtherEnd(s, d) ==
  IF d.deltaType = DELTA_TYPE_EDGE_SLACK
    THEN LET vertex1 == Edge(d.deltaEdge)[1]
             vertex2 == Edge(d.deltaEdge)[2]
         IN [s EXCEPT !.allowEdge[d.deltaEdge] = TRUE,
                      !.queue = Append(@, IF isUnlabeledVertex(s, vertex1)
                                          THEN vertex1 ELSE vertex2)]
  ELSE IF d.deltaType = DELTA_TYPE_BLOSSOM_SLACK
    THEN [s EXCEPT !.allowEdge[d.deltaEdge] = TRUE,
                   !.queue = Append(@, Edge(d.deltaEdge)[1])]
  ELSE IF d.deltaType = DELTA_TYPE_BLOSSOM_EXPAND
    THEN expandBlossom(s, d.deltaBlossom, FALSE)
  ELSE s

(* PHASE 5 left out: no edge is allowed, nothing is queued or expanded *)
deltaActionNone(s, d) == s

(* PHASE 5: the action of the winning type (Type 1 changes nothing more) *)
deltaAction(s, d) ==
  IF d.deltaType = DELTA_TYPE_EDGE_SLACK
    THEN LET vertex1 == Edge(d.deltaEdge)[1]
             vertex2 == Edge(d.deltaEdge)[2]
         IN [s EXCEPT !.allowEdge[d.deltaEdge] = TRUE,
                      !.queue = Append(@, IF isUnlabeledVertex(s, vertex1)
                                          THEN vertex2 ELSE vertex1)]
  ELSE IF d.deltaType = DELTA_TYPE_BLOSSOM_SLACK
    THEN [s EXCEPT !.allowEdge[d.deltaEdge] = TRUE,
                   !.queue = Append(@, Edge(d.deltaEdge)[1])]
  ELSE IF d.deltaType = DELTA_TYPE_BLOSSOM_EXPAND
    THEN expandBlossom(s, d.deltaBlossom, FALSE)
  ELSE s

(* every top-level S-blossom is expanded at the end of the stage, whatever *)
(* its dual                                                                *)
RECURSIVE expandEveryS(_, _)
expandEveryS(s, b) ==
  IF b >= nVertex * BLOSSOM_MULTIPLIER THEN s
  ELSE expandEveryS(IF s.blossomParent[b] = UNMATCHED /\ s.blossomBase[b] >= 0
                       /\ s.label[b] = VERTEX_LABEL_S
                    THEN expandBlossom(s, b, TRUE) ELSE s,
                    b + 1)

(* the end of a stage with no blossom expanded *)
endStageCleanupSkipped(s, b) == s

(* End of a stage that augmented: expand the top-level S-blossoms whose    *)
(* dual is 0, for b = nVertex .. 2 nVertex - 1 in order.                   *)
RECURSIVE endStageCleanup(_, _)
endStageCleanup(s, b) ==
  IF b >= nVertex * BLOSSOM_MULTIPLIER THEN s
  ELSE endStageCleanup(IF s.blossomParent[b] = UNMATCHED /\ s.blossomBase[b] >= 0
                          /\ s.label[b] = VERTEX_LABEL_S /\ s.dualVar[b] = 0
                       THEN expandBlossom(s, b, TRUE) ELSE s,
                       b + 1)

(* the last loop left out: mate still holds endpoint indices *)
mateAsEndpoints(m) == m

(* the last loop of maxWeightMatching: endpoints become vertex ids *)
translateMate(m) == [v \in 0..(nVertex - 1) |-> IF m[v] >= 0 THEN endpoint[m[v]] ELSE m[v]]

(* an array as the sequence of its elements *)
AsSeq(a, len) == [i \in 1..len |-> a[i - 1]]

----------------------------------------------------------------------------
(* Inputs.  The edge lists of the repository's test suite                  *)
(* (src/unnamed/part_001), every simple graph on the vertices              *)
(* 0..MaxVertexId with at most MaxEdges edges, listed in lexicographic     *)
(* order with weights from Weights, a few lists with self-loops, parallel  *)
(* and reversed edges, and malformed lists for the validation.             *)

SuiteSingleEdge ==
  <<<<0, 1, 1>>>>

SuiteTwoEdges ==
  <<<<1, 2, 10>>, <<2, 3, 11>>>>

SuiteThreeEdges ==
  <<<<1, 2, 5>>, <<2, 3, 11>>, <<3, 4, 5>>>>

SuiteNegativeWeights ==
  <<<<1, 2, 2>>, <<1, 3, -2>>, <<2, 3, 1>>, <<2, 4, -1>>, <<3, 4, -6>>>>

SuiteSBlossom1 ==
  <<<<1, 2, 8>>, <<1, 3, 9>>, <<2, 3, 10>>, <<3, 4, 7>>>>

SuiteSBlossom2 ==
  <<<<1, 2, 8>>, <<1, 3, 9>>, <<2, 3, 10>>, <<3, 4, 7>>, <<1, 6, 5>>,
    <<4, 5, 6>>>>

SuiteSTBlossom1 ==
  <<<<1, 2, 9>>, <<1, 3, 8>>, <<2, 3, 10>>, <<1, 4, 5>>, <<4, 5, 4>>,
    <<1, 6, 3>>>>

SuiteSTBlossom2 ==
  <<<<1, 2, 9>>, <<1, 3, 8>>, <<2, 3, 10>>, <<1, 4, 5>>, <<4, 5, 3>>,
    <<1, 6, 4>>>>

SuiteSTBlossom3 ==
  <<<<1, 2, 9>>, <<1, 3, 8>>, <<2, 3, 10>>, <<1, 4, 5>>, <<4, 5, 3>>,
    <<3, 6, 4>>>>

SuiteNestedSBlossom ==
  <<<<1, 2, 9>>, <<1, 3, 9>>, <<2, 3, 10>>, <<2, 4, 8>>, <<3, 5, 8>>,
    <<4, 5, 10>>, <<5, 6, 6>>>>

SuiteSRelabelNested ==
  <<<<1, 2, 10>>, <<1, 7, 10>>, <<2, 3, 12>>, <<3, 4, 20>>, <<3, 5, 20>>,
    <<4, 5, 25>>, <<5, 6, 10>>, <<6, 7, 10>>, <<7, 8, 8>>>>

SuiteNestedExpandRecursively ==
  <<<<1, 2, 8>>, <<1, 3, 8>>, <<2, 3, 10>>, <<2, 4, 12>>, <<3, 5, 12>>,
    <<4, 5, 14>>, <<4, 6, 12>>, <<5, 7, 12>>, <<6, 7, 14>>, <<7, 8, 12>>>>

SuiteTExpand ==
  <<<<1, 2, 23>>, <<1, 5, 22>>, <<1, 6, 15>>, <<2, 3, 25>>, <<3, 4, 22>>,
    <<4, 5, 25>>, <<4, 8, 14>>, <<5, 7, 13>>>>

SuiteNestedTExpand ==
  <<<<1, 2, 19>>, <<1, 3, 20>>, <<1, 8, 8>>, <<2, 3, 25>>, <<2, 4, 18>>,
    <<3, 5, 18>>, <<4, 5, 13>>, <<4, 7, 7>>, <<5, 6, 7>>>>

SuiteTMoreThanOneWay1 ==
  <<<<1, 2, 45>>, <<1, 5, 45>>, <<2, 3, 50>>, <<3, 4, 45>>, <<4, 5, 50>>,
    <<1, 6, 30>>, <<3, 9, 35>>, <<4, 8, 35>>, <<5, 7, 26>>, <<9, 10, 5>>>>

SuiteTMoreThanOneWay2 ==
  <<<<1, 2, 45>>, <<1, 5, 45>>, <<2, 3, 50>>, <<3, 4, 45>>, <<4, 5, 50>>,
    <<1, 6, 30>>, <<3, 9, 35>>, <<4, 8, 26>>, <<5, 7, 40>>, <<9, 10, 5>>>>

SuiteTLeastSlack ==
  <<<<1, 2, 45>>, <<1, 5, 45>>, <<2, 3, 50>>, <<3, 4, 45>>, <<4, 5, 50>>,
    <<1, 6, 30>>, <<3, 9, 35>>, <<4, 8, 28>>, <<5, 7, 26>>, <<9, 10, 5>>>>

SuiteNestedTMoreThanOneWay ==
  <<<<1, 2, 45>>, <<1, 7, 45>>, <<2, 3, 50>>, <<3, 4, 45>>, <<4, 5, 95>>,
    <<4, 6, 94>>, <<5, 6, 94>>, <<6, 7, 50>>, <<1, 8, 30>>, <<3, 11, 35>>,
    <<5, 9, 36>>, <<7, 10, 26>>, <<11, 12, 5>>>>

SuiteNestedSExpandRecursively ==
  <<<<1, 2, 40>>, <<1, 3, 40>>, <<2, 3, 60>>, <<2, 4, 55>>, <<3, 5, 55>>,
    <<4, 5, 50>>, <<1, 8, 15>>, <<5, 7, 30>>, <<7, 6, 10>>, <<8, 10, 10>>,
    <<4, 9, 30>>>>

SuiteNbLists ==
  <<<<1, 2, 5>>, <<1, 3, 6>>, <<1, 4, 2>>, <<2, 3, 4>>, <<2, 4, 1>>,
    <<3, 4, 3>>>>

SuiteLoveTriangle ==
  <<<<0, 1, 6>>, <<0, 2, 10>>, <<1, 2, 5>>>>

SuiteInputs ==
  {SuiteSingleEdge, SuiteTwoEdges, SuiteThreeEdges,
   SuiteNegativeWeights, SuiteSBlossom1, SuiteSBlossom2,
   SuiteSTBlossom1, SuiteSTBlossom2, SuiteSTBlossom3,
   SuiteNestedSBlossom, SuiteSRelabelNested, SuiteNestedExpandRecursively,
   SuiteTExpand, SuiteNestedTExpand, SuiteTMoreThanOneWay1,
   SuiteTMoreThanOneWay2, SuiteTLeastSlack, SuiteNestedTMoreThanOneWay,
   SuiteNestedSExpandRecursively, SuiteNbLists, SuiteLoveTriangle}

Weights == {-1, 2, 3}

(* the pairs i < j over 0..MaxVertexId in lexicographic order *)
RECURSIVE PairsFrom(_, _)
PairsFrom(i, j) ==
  IF i >= MaxVertexId THEN <<>>
  ELSE IF j > MaxVertexId THEN PairsFrom(i + 1, i + 2)
  ELSE <<<<i, j>>>> \o PairsFrom(i, j + 1)

Pairs == PairsFrom(0, 1)

(* the edge lists over the pairs from position from on, at most k edges *)
RECURSIVE EdgeLists(_, _)
EdgeLists(from, k) ==
  IF k = 0 \/ from > Len(Pairs) THEN {<<>>}
  ELSE EdgeLists(from + 1, k)
       \cup {<<<<Pairs[from][1], Pairs[from][2], w>>>> \o rest :
               w \in Weights, rest \in EdgeLists(from + 1, k - 1)}

SimpleGraphs == EdgeLists(1, MaxEdges)

(* self-loops, parallel edges, reversed edges, unordered lists *)
OddInputs ==
  {<<<<0, 0, 3>>>>,
   <<<<1, 1, 2>>, <<0, 1, 3>>>>,
   <<<<0, 1, 2>>, <<0, 1, 3>>>>,
   <<<<0, 1, 3>>, <<1, 0, -1>>, <<1, 2, 2>>>>,
   <<<<2, 1, 3>>, <<1, 0, 2>>, <<3, 2, 2>>>>,
   <<<<0, 1, 2>>, <<1, 2, 2>>, <<2, 0, 2>>, <<2, 2, 3>>, <<3, 2, 3>>>>,
   <<<<2, 3, 2>>, <<0, 1, 2>>, <<1, 2, 3>>, <<1, 2, -1>>>>}

(* graphs whose searches grow alternating trees more than one level deep:  *)
(* an edge between two S-vertices of one tree whose paths fork below the   *)
(* root, and an edge between two trees reached below their roots           *)
DeepTreeInputs ==
  {<<<<0, 2, 2>>, <<0, 1, 2>>, <<1, 3, 1>>, <<2, 6, 1>>, <<4, 6, 1>>, <<2, 5, 4>>,
     <<3, 5, 4>>>>,
   <<<<0, 1, 5>>, <<0, 5, 4>>, <<2, 3, 1>>, <<1, 4, 1>>, <<2, 4, 3>>>>}

(* a graph on which the cleanup of a stage expands a blossom of dual 0     *)
(* around a blossom whose dual is not 0                                    *)
NestedCleanupInputs ==
  {<<<<1, 3, 5>>, <<0, 4, 4>>, <<4, 5, 6>>, <<0, 1, 3>>, <<0, 3, 4>>, <<1, 2, 2>>,
     <<3, 5, 5>>>>}

(* a complete graph on five vertices on which a mid-search expansion is    *)
(* followed by a Type 3 delta in the same stage                            *)
OddSlackInputs ==
  {<<<<0, 3, 18>>, <<0, 4, 10>>, <<1, 0, 6>>, <<1, 2, 13>>, <<1, 3, 13>>, <<1, 4, 3>>,
     <<2, 0, 18>>, <<2, 3, 14>>, <<2, 4, 13>>, <<3, 4, 1>>>>}

Call(raw, flag) == [isArray |-> TRUE, edges |-> raw, flag |-> flag]

(* the ways one element of an edge list can be wrong *)
BadEdges ==
  {NotArr,
   Arr(<<Num(0), Num(1)>>),
   Arr(<<Num(0), Num(1), Num(2), Num(3)>>),
   Arr(<<Undefined, Num(1), Num(2)>>),
   Arr(<<Num(0), Frac, Num(2)>>),
   Arr(<<Num(-1), Num(1), Num(2)>>),
   Arr(<<Num(0), Str, Num(2)>>),
   Arr(<<Num(0), Num(1), Undefined>>),
   Arr(<<Num(0), Num(1), Str>>),
   Arr(<<Num(0), Num(1), Infinite>>),
   Arr(<<Num(0), Num(1), NotANumber>>)}

(* a valid list with a bad edge put before, between or after its edges *)
MalformedLists ==
  UNION {{SubSeq(good, 1, k) \o <<bad>> \o SubSeq(good, k + 1, Len(good)) :
            bad \in BadEdges, k \in 0..Len(good)} :
         good \in {<<>>, RawEdges(SuiteTwoEdges)}}

Inputs ==
  {Call(RawEdges(es), flag) : es \in SuiteInputs, flag \in {"undefined", "true"}}
  \cup {Call(RawEdges(es), flag) : es \in SimpleGraphs \cup OddInputs \cup DeepTreeInputs \cup NestedCleanupInputs,
        flag \in {"false", "true"}}
  \cup {Call(raw, flag) : raw \in MalformedLists, flag \in {"undefined"}}
  \cup {[isArray |-> FALSE, edges |-> <<>>, flag |-> "undefined"]}

----------------------------------------------------------------------------
(* The state machine.                                                      *)

noCalls ==
  [addBlossom |-> 0, expandBlossom |-> 0, expandInSearch |-> 0, augmentMatching |-> 0,
   directT |-> 0]

noPrevious == [trace |-> <<>>, result |-> <<>>, error |-> "", pc |-> ""]

(* the stage counter left where the call before stopped *)
staleStage(old) == old

(* for (let t = 0; ...): the stage counter at the entry of maxWeightMatching *)
firstStage(old) == 0

(* the state in which blossom() is called for the first time *)
StartFrom(ins, rec) ==
  /\ input \in ins
  /\ pc = "call"
  /\ error = ""
  /\ result = <<>>
  /\ edges = <<>>
  /\ maxCardinality = FALSE
  /\ nEdge = 0
  /\ nVertex = 0
  /\ maxWeight = 0
  /\ endpoint = <<>>
  /\ neighbend = <<>>
  /\ mate = <<>>
  /\ label = <<>>
  /\ labelEnd = <<>>
  /\ inBlossom = <<>>
  /\ blossomParent = <<>>
  /\ blossomChilds = <<>>
  /\ blossomBase = <<>>
  /\ blossomEndPs = <<>>
  /\ bestEdge = <<>>
  /\ blossomBestEdges = <<>>
  /\ unusedBlossoms = <<>>
  /\ dualVar = <<>>
  /\ allowEdge = <<>>
  /\ queue = <<>>
  /\ t = 0
  /\ augmented = FALSE
  /\ currentVertex = UNMATCHED
  /\ nbIndex = 0
  /\ lastOp = "init"
  /\ calls = noCalls
  /\ run = 1
  /\ recording = rec
  /\ trace = <<>>
  /\ steps = 0
  /\ previous = noPrevious

(* a call with one of the inputs of the model *)
Start(rec) == StartFrom(Inputs, rec)

Init == Start(FALSE)

(* the step just taken, written to trace when the calls are recorded: the  *)
(* position, the stage, the matching, the labels, the blossom of every     *)
(* vertex, the duals and the queue                                         *)
Record ==
  trace' = IF recording
           THEN Append(trace, [pc |-> pc', op |-> lastOp', t |-> t', mate |-> mate',
                               label |-> label', inBlossom |-> inBlossom',
                               dualVar |-> dualVar', queue |-> queue'])
           ELSE trace

(* one more step of the call, as long as the model follows it *)
Tick ==
  /\ steps < StepLimit
  /\ steps' = steps + 1

(* the engine arrays become those of record s; a walk that never ends      *)
(* leaves the call hanging                                                 *)
Commit(s, next) ==
  /\ mate' = s.mate
  /\ label' = s.label
  /\ labelEnd' = s.labelEnd
  /\ inBlossom' = s.inBlossom
  /\ blossomParent' = s.blossomParent
  /\ blossomChilds' = s.blossomChilds
  /\ blossomBase' = s.blossomBase
  /\ blossomEndPs' = s.blossomEndPs
  /\ bestEdge' = s.bestEdge
  /\ blossomBestEdges' = s.blossomBestEdges
  /\ unusedBlossoms' = s.unusedBlossoms
  /\ dualVar' = s.dualVar
  /\ allowEdge' = s.allowEdge
  /\ queue' = s.queue
  /\ pc' = IF s.hung THEN "hung" ELSE next

(* blossom(): an argument that is not an array, or an edge that fails the  *)
(* validation loop, throws                                                 *)
Reject ==
  /\ pc = "call"
  /\ \/ ~input.isArray
     \/ input.isArray /\ Len(input.edges) # 0 /\ ValidationError(input.edges, 1) # ""
  /\ error' = IF ~input.isArray THEN "Edges must be an array"
              ELSE ValidationError(input.edges, 1)
  /\ pc' = "error"
  /\ lastOp' = "throw"
  /\ UNCHANGED <<input, result, graphVars, engineVars, loopVars, calls, callVars>>
  /\ Record
  /\ Tick

(* blossom(): edges.length === 0 returns [] *)
ReturnEmpty ==
  /\ pc = "call"
  /\ input.isArray
  /\ Len(input.edges) = 0
  /\ result' = <<>>
  /\ pc' = "done"
  /\ lastOp' = "empty"
  /\ UNCHANGED <<input, error, graphVars, engineVars, loopVars, calls, callVars>>
  /\ Record
  /\ Tick

(* the free list with the id n on top of the stack *)
initUnusedBlossomsDescending(n) == [i \in 1..n |-> 2 * n - i]

(* the free list of blossom ids after construction: n at the bottom,       *)
(* 2n - 1 on top of the stack                                              *)
initUnusedBlossoms(n) == [i \in 1..n |-> i - 1 + n]

(* new Edmonds(edges, maxCardinality || false) *)
Construct ==
  /\ pc = "call"
  /\ input.isArray
  /\ Len(input.edges) # 0
  /\ ValidationError(input.edges, 1) = ""
  /\ LET es == Triples(input.edges)
         n == calculateVertexCount(es)
         mw == calculateMaxWeight(es)
     IN /\ edges' = es
        /\ maxCardinality' = (input.flag = "true")
        /\ nEdge' = Len(es)
        /\ nVertex' = n
        /\ maxWeight' = mw
        /\ endpoint' = initEndpoint(es)
        /\ neighbend' = initNeighbend(es, n)
        /\ inBlossom' = [i \in 0..(n - 1) |-> i]
        /\ blossomParent' = filledArray(BLOSSOM_MULTIPLIER * n, UNMATCHED)
        /\ blossomChilds' = initArrArr(BLOSSOM_MULTIPLIER * n)
        /\ blossomBase' = [i \in 0..(BLOSSOM_MULTIPLIER * n - 1) |-> IF i < n THEN i ELSE UNMATCHED]
        /\ blossomEndPs' = initArrArr(BLOSSOM_MULTIPLIER * n)
        /\ bestEdge' = filledArray(BLOSSOM_MULTIPLIER * n, UNMATCHED)
        /\ blossomBestEdges' = initArrArr(BLOSSOM_MULTIPLIER * n)
        /\ unusedBlossoms' = initUnusedBlossoms(n)
        /\ mate' = filledArray(n, UNMATCHED)
        /\ label' = filledArray(BLOSSOM_MULTIPLIER * n, UNLABELED)
        /\ labelEnd' = filledArray(BLOSSOM_MULTIPLIER * n, UNMATCHED)
        /\ dualVar' = [i \in 0..(BLOSSOM_MULTIPLIER * n - 1) |-> IF i < n THEN mw ELSE 0]
        /\ allowEdge' = filledArray(Len(es), FALSE)
        /\ queue' = <<>>
  /\ t' = firstStage(t)
  /\ pc' = "stage"
  /\ lastOp' = "construct"
  /\ UNCHANGED <<input, error, result, augmented, currentVertex, nbIndex, calls, callVars>>
  /\ Record
  /\ Tick

(* the head of the stage loop: the reset and PHASE 1, or the end of the loop *)
StartStage ==
  /\ pc = "stage"
  /\ IF t < nVertex
     THEN /\ Commit(startStage(Engine), "search")
          /\ augmented' = FALSE
          /\ lastOp' = "stage"
     ELSE /\ pc' = "translate"
          /\ lastOp' = "stages exhausted"
          /\ UNCHANGED <<engineVars, augmented>>
  /\ UNCHANGED <<input, error, result, graphVars, t, currentVertex, nbIndex, calls, callVars>>
  /\ Record
  /\ Tick

(* PHASE 2: queue.pop() *)
PopVertex ==
  /\ pc = "search"
  /\ Len(queue) > 0
  /\ ~augmented
  /\ currentVertex' = queue[Len(queue)]
  /\ queue' = SubSeq(queue, 1, Len(queue) - 1)
  /\ nbIndex' = 1
  /\ pc' = IF Len(neighbend[queue[Len(queue)]]) = 0 THEN "search" ELSE "edges"
  /\ lastOp' = "pop"
  /\ UNCHANGED <<input, error, result, graphVars, mate, label, labelEnd, inBlossom,
                 blossomParent, blossomChilds, blossomBase, blossomEndPs, bestEdge,
                 blossomBestEdges, unusedBlossoms, dualVar, allowEdge, t, augmented, calls,
                 callVars>>
  /\ Record
  /\ Tick

(* PHASE 2: one pass of the loop over neighbend[currentVertex] *)
ExamineEdge ==
  /\ pc = "edges"
  /\ \E case \in {edgeCase(Engine, currentVertex, neighbend[currentVertex][nbIndex])} :
     LET edgeEndpoint == neighbend[currentVertex][nbIndex]
         last == nbIndex = Len(neighbend[currentVertex])
     IN /\ Commit(examineEdge(Engine, currentVertex, edgeEndpoint, case),
                  IF case = "augment" THEN "cleanup" ELSE IF last THEN "search" ELSE "edges")
        /\ augmented' = (case = "augment")
        /\ nbIndex' = IF case = "augment" \/ last THEN nbIndex ELSE nbIndex + 1
        /\ lastOp' = case
        /\ calls' = [calls EXCEPT
                       !.addBlossom = IF case = "addBlossom" THEN @ + 1 ELSE @,
                       !.augmentMatching = IF case = "augment" THEN @ + 1 ELSE @,
                       !.directT = IF case = "directT" THEN @ + 1 ELSE @]
  /\ UNCHANGED <<input, error, result, graphVars, t, currentVertex, callVars>>
  /\ Record
  /\ Tick

(* PHASES 3 to 5: the queue is empty and the stage has not augmented *)
AdjustDuals ==
  /\ pc = "search"
  /\ Len(queue) = 0
  /\ ~augmented
  /\ \E d \in {chooseDelta(Engine)} :
        IF d.delta2 % 2 # 0
        THEN /\ pc' = "fractional"
             /\ lastOp' = "fractional delta"
             /\ UNCHANGED <<engineVars, calls>>
        ELSE /\ Commit(deltaAction(applyDelta(Engine, d.delta2 \div 2), d),
                       IF d.deltaType = DELTA_TYPE_DUAL_DECREASE THEN "translate" ELSE "search")
             /\ lastOp' = CASE d.deltaType = DELTA_TYPE_DUAL_DECREASE -> "delta1"
                            [] d.deltaType = DELTA_TYPE_EDGE_SLACK -> "delta2"
                            [] d.deltaType = DELTA_TYPE_BLOSSOM_SLACK -> "delta3"
                            [] OTHER -> "delta4"
             /\ calls' = [calls EXCEPT
                            !.expandBlossom =
                              IF d.deltaType = DELTA_TYPE_BLOSSOM_EXPAND THEN @ + 1 ELSE @,
                            !.expandInSearch =
                              IF d.deltaType = DELTA_TYPE_BLOSSOM_EXPAND THEN @ + 1 ELSE @]
  /\ UNCHANGED <<input, error, result, graphVars, loopVars, callVars>>
  /\ Record
  /\ Tick

(* the end of a stage that augmented, and t++ *)
EndStage ==
  /\ pc = "cleanup"
  /\ \E s \in {endStageCleanup(Engine, nVertex)} :
       /\ Commit(s, "stage")
       /\ calls' = [calls EXCEPT !.expandBlossom =
                      @ + Len(s.unusedBlossoms) - Len(unusedBlossoms)]
  /\ t' = t + 1
  /\ lastOp' = "cleanup"
  /\ UNCHANGED <<input, error, result, graphVars, augmented, currentVertex, nbIndex, callVars>>
  /\ Record
  /\ Tick

(* the translation of mate and the return *)
Translate ==
  /\ pc = "translate"
  /\ mate' = translateMate(mate)
  /\ result' = AsSeq(translateMate(mate), nVertex)
  /\ pc' = "done"
  /\ lastOp' = "return"
  /\ UNCHANGED <<input, error, graphVars, label, labelEnd, inBlossom, blossomParent,
                 blossomChilds, blossomBase, blossomEndPs, bestEdge, blossomBestEdges,
                 unusedBlossoms, dualVar, allowEdge, queue, loopVars, calls, callVars>>
  /\ Record
  /\ Tick

Next ==
  \/ Reject
  \/ ReturnEmpty
  \/ Construct
  \/ StartStage
  \/ PopVertex
  \/ ExamineEdge
  \/ AdjustDuals
  \/ EndStage
  \/ Translate

Spec == Init /\ [][Next]_vars

(* the calls of Spec and the calls on OddSlackInputs *)
InitOddSlack ==
  StartFrom(Inputs \cup {Call(RawEdges(es), flag) : es \in OddSlackInputs,
                                                   flag \in {"false", "true"}},
            FALSE)

SpecOddSlack == InitOddSlack /\ [][Next]_vars

(* the call is running: it has neither returned nor thrown, and no walk or *)
(* delta has left the model                                                *)
running == pc \notin {"done", "error", "hung", "fractional"}

(* blossom() is synchronous and runs to completion on its thread: while it *)
(* is running, its next step is never postponed forever.  Every step of    *)
(* Next counts in steps, so the steps of Next are those of running /\ Tick *)
FairSpec == Spec /\ WF_steps(running /\ Tick)

----------------------------------------------------------------------------
(* A second call of blossom() with the same arguments, in the same         *)
(* process: whatever the first call left behind is still there.            *)

InitRecorded == Start(TRUE)

(* blossom(edges, maxCardinality) is called again after it has returned or *)
(* thrown; the arrays of the first engine are garbage, not reset           *)
CallAgain ==
  /\ pc \in {"done", "error"}
  /\ run = 1
  /\ run' = 2
  /\ previous' = [trace |-> trace, result |-> result, error |-> error, pc |-> pc]
  /\ trace' = <<>>
  /\ steps' = 0
  /\ result' = <<>>
  /\ error' = ""
  /\ calls' = noCalls
  /\ pc' = "call"
  /\ lastOp' = "call again"
  /\ UNCHANGED <<input, graphVars, engineVars, loopVars, recording>>

NextTwoCalls ==
  \/ Next
  \/ CallAgain

SpecTwoCalls == InitRecorded /\ [][NextTwoCalls]_vars

----------------------------------------------------------------------------
(* The contract of blossom(), stated on the arguments of the call and on   *)
(* the array it returns.                                                   *)

(* the edges of a call that passes the validation, as triples *)
InputEdges ==
  IF input.isArray /\ ValidationError(input.edges, 1) = "" THEN Triples(input.edges)
  ELSE <<>>

(* the positions of the edges of es that join u and v *)
joining(es, u, v) == {k \in 1..Len(es) : {es[k][1], es[k][2]} = {u, v}}

(* the vertices that occur in es *)
verticesOf(es) == {es[k][1] : k \in 1..Len(es)} \cup {es[k][2] : k \in 1..Len(es)}

noSelfLoops(es) == \A k \in 1..Len(es) : es[k][1] # es[k][2]

noParallelEdges(es) ==
  \A k, l \in 1..Len(es) : k # l => {es[k][1], es[k][2]} # {es[l][1], es[l][2]}

(* r[v + 1] is the partner of vertex v: r is a matching on 0..Len(r) - 1 *)
isMatching(r) ==
  \A v \in 0..(Len(r) - 1) :
    \/ r[v + 1] = UNMATCHED
    \/ /\ 0 <= r[v + 1]
       /\ r[v + 1] < Len(r)
       /\ r[v + 1] # v
       /\ r[r[v + 1] + 1] = v

(* the pairs that r matches, each named by its smaller vertex *)
pairsOf(r) == {v \in 0..(Len(r) - 1) : r[v + 1] > v}

(* the weight of the heaviest edge of es that joins u and v *)
pairWeight(es, u, v) ==
  LET ws == {es[k][3] : k \in joining(es, u, v)}
  IN CHOOSE w \in ws : \A x \in ws : x <= w

(* the total weight of the pairs of r from vertex v on *)
RECURSIVE weightFrom(_, _, _)
weightFrom(es, r, v) ==
  IF v >= Len(r) THEN 0
  ELSE (IF r[v + 1] > v THEN pairWeight(es, v, r[v + 1]) ELSE 0) + weightFrom(es, r, v + 1)

matchedWeight(es, r) == weightFrom(es, r, 0)

(* Brute force: the greatest total weight of a matching made of edges of   *)
(* es from position k on that avoids the vertices in used.                 *)
RECURSIVE bruteWeight(_, _, _)
bruteWeight(es, k, used) ==
  IF k > Len(es) THEN 0
  ELSE IF es[k][1] # es[k][2] /\ es[k][1] \notin used /\ es[k][2] \notin used
    THEN Max2(bruteWeight(es, k + 1, used),
              es[k][3] + bruteWeight(es, k + 1, used \cup {es[k][1], es[k][2]}))
  ELSE bruteWeight(es, k + 1, used)

(* Brute force: the greatest number of pairs of such a matching. *)
RECURSIVE bruteCardinality(_, _, _)
bruteCardinality(es, k, used) ==
  IF k > Len(es) THEN 0
  ELSE IF es[k][1] # es[k][2] /\ es[k][1] \notin used /\ es[k][2] \notin used
    THEN Max2(bruteCardinality(es, k + 1, used),
              1 + bruteCardinality(es, k + 1, used \cup {es[k][1], es[k][2]}))
  ELSE bruteCardinality(es, k + 1, used)

(* more than the total weights of any two matchings of es can differ by *)
RECURSIVE weightSpan(_, _)
weightSpan(es, k) ==
  IF k > Len(es) THEN 1
  ELSE 2 * (IF es[k][3] < 0 THEN -es[k][3] ELSE es[k][3]) + weightSpan(es, k + 1)

(* Brute force: the greatest value of pairs * span + weight of such a      *)
(* matching, that is the greatest weight among the matchings with the most *)
(* pairs when span is weightSpan(es, 1).                                   *)
RECURSIVE bruteScore(_, _, _, _)
bruteScore(es, k, used, span) ==
  IF k > Len(es) THEN 0
  ELSE IF es[k][1] # es[k][2] /\ es[k][1] \notin used /\ es[k][2] \notin used
    THEN Max2(bruteScore(es, k + 1, used, span),
              span + es[k][3]
                + bruteScore(es, k + 1, used \cup {es[k][1], es[k][2]}, span))
  ELSE bruteScore(es, k + 1, used, span)

(* the edges of es of weight >= 0 *)
RECURSIVE nonNegative(_, _)
nonNegative(es, k) ==
  IF k > Len(es) THEN <<>>
  ELSE (IF es[k][3] >= 0 THEN <<es[k]>> ELSE <<>>) \o nonNegative(es, k + 1)

----------------------------------------------------------------------------
(* C1: for every validated edge list, in both modes, the returned array is *)
(* a matching (every entry is -1, or the id of another vertex whose entry  *)
(* points back), and every matched pair is joined by an edge of the input. *)
C1_ValidMatching ==
  pc = "done" =>
    /\ isMatching(result)
    /\ \A v \in 0..(Len(result) - 1) :
         result[v + 1] # UNMATCHED => joining(InputEdges, v, result[v + 1]) # {}

(* a call in cardinality mode that contracted a blossom has returned, with *)
(* a pair matched and a vertex that has an edge left unmatched             *)
C1_Witness ==
  /\ pc = "done"
  /\ maxCardinality
  /\ calls.addBlossom > 0
  /\ pairsOf(result) # {}
  /\ \E v \in verticesOf(InputEdges) : result[v + 1] = UNMATCHED

(* C2: in weight mode, on a graph of at most 8 vertices without self-loops *)
(* and parallel edges, the total weight of the returned matching is the    *)
(* greatest total weight of any matching, found by brute force.            *)
C2_WeightOptimal ==
  (/\ pc = "done"
   /\ ~maxCardinality
   /\ noSelfLoops(InputEdges)
   /\ noParallelEdges(InputEdges)
   /\ Cardinality(verticesOf(InputEdges)) <= 8)
  => matchedWeight(InputEdges, result) = bruteWeight(InputEdges, 1, {})

(* a call in weight mode on such a graph has returned after contracting a  *)
(* blossom, and the heaviest matching leaves a vertex with an edge alone   *)
C2_Witness ==
  /\ pc = "done"
  /\ ~maxCardinality
  /\ noSelfLoops(InputEdges)
  /\ noParallelEdges(InputEdges)
  /\ Cardinality(verticesOf(InputEdges)) <= 8
  /\ calls.addBlossom > 0
  /\ bruteWeight(InputEdges, 1, {}) > 0
  /\ \E v \in verticesOf(InputEdges) : result[v + 1] = UNMATCHED

(* C3: in cardinality mode the returned matching has the greatest number   *)
(* of pairs of any matching of the graph, and the greatest total weight    *)
(* among the matchings with that number of pairs.                          *)
C3_CardinalityThenWeight ==
  (pc = "done" /\ maxCardinality) =>
    /\ Cardinality(pairsOf(result)) = bruteCardinality(InputEdges, 1, {})
    /\ Cardinality(pairsOf(result)) * weightSpan(InputEdges, 1)
         + matchedWeight(InputEdges, result)
       = bruteScore(InputEdges, 1, {}, weightSpan(InputEdges, 1))

(* a call in cardinality mode has returned a matching that is lighter than *)
(* the heaviest matching of the graph, which has fewer pairs               *)
C3_Witness ==
  /\ pc = "done"
  /\ maxCardinality
  /\ matchedWeight(InputEdges, result) < bruteWeight(InputEdges, 1, {})
  /\ Cardinality(pairsOf(result)) >= 2

(* C4: for every validated input the call terminates and returns a result: *)
(* the stage loop, the search and dual-adjustment loop and every walk of   *)
(* scanBlossom, addBlossom, expandBlossom, augmentBlossom and              *)
(* augmentMatching finish, so a call that passed validation always reaches *)
(* its return.                                                             *)
C4_Terminates ==
  (pc = "call" /\ input.isArray /\ ValidationError(input.edges, 1) = "") ~> (pc = "done")

(* a call has returned after it contracted a blossom, expanded one in the  *)
(* search, augmented more than once and ran more than one stage            *)
C4_Witness ==
  /\ pc = "done"
  /\ calls.addBlossom > 0
  /\ calls.expandInSearch > 0
  /\ calls.augmentMatching > 1
  /\ t > 1

(* C5: the returned array has length 0 for an empty edge list, which is    *)
(* returned at once with no engine state built, and length 1 + the largest *)
(* vertex id of the edges otherwise; every index that occurs in no edge    *)
(* holds -1.                                                               *)
C5_ResultLength ==
  pc = "done" =>
    /\ Len(InputEdges) = 0 =>
         /\ result = <<>>
         /\ lastOp = "empty"
         /\ calls = noCalls
         /\ nEdge = 0 /\ nVertex = 0 /\ edges = <<>> /\ endpoint = <<>>
         /\ mate = <<>> /\ label = <<>> /\ dualVar = <<>> /\ queue = <<>>
    /\ Len(InputEdges) # 0 =>
         \E top \in verticesOf(InputEdges) :
           /\ \A v \in verticesOf(InputEdges) : v <= top
           /\ Len(result) = 1 + top
    /\ \A v \in 0..(Len(result) - 1) :
         v \notin verticesOf(InputEdges) => result[v + 1] = UNMATCHED

(* a call has returned an array with a matched pair in which vertex 0 and  *)
(* one more index occur in no edge                                         *)
C5_Witness ==
  /\ pc = "done"
  /\ pairsOf(result) # {}
  /\ 0 \notin verticesOf(InputEdges)
  /\ \E v \in 1..(Len(result) - 1) : v \notin verticesOf(InputEdges)

validTriple(e) ==
  /\ e.isArray
  /\ Len(e.el) = 3
  /\ e.el[1].t = "int" /\ e.el[1].v >= 0
  /\ e.el[2].t = "int" /\ e.el[2].v >= 0
  /\ e.el[3].t \in {"int", "frac"}

(* C7: for a non-empty edge collection, the call raises an error and       *)
(* computes no matching whenever some edge, at any position, is not an     *)
(* array of exactly 3 elements or has a vertex id that is missing,         *)
(* non-integral or negative or a weight that is missing, non-numeric or    *)
(* not finite; the engine is not constructed before all edges are          *)
(* validated; a list of valid triples never raises.                        *)
C7_Validation ==
  (input.isArray /\ Len(input.edges) > 0 /\ pc # "call") =>
    /\ pc = "error" <=> \E k \in 1..Len(input.edges) : ~validTriple(input.edges[k])
    /\ pc = "error" =>
         /\ error # ""
         /\ lastOp = "throw"
         /\ result = <<>>
         /\ calls = noCalls
         /\ nEdge = 0 /\ nVertex = 0 /\ edges = <<>> /\ endpoint = <<>>
         /\ mate = <<>> /\ label = <<>> /\ dualVar = <<>>

(* the call has thrown on a list whose first two edges are valid and whose *)
(* last element has a weight that is not a finite number                   *)
C7_Witness ==
  /\ pc = "error"
  /\ input.isArray
  /\ Len(input.edges) = 3
  /\ validTriple(input.edges[1])
  /\ validTriple(input.edges[2])
  /\ input.edges[3].isArray
  /\ Len(input.edges[3].el) = 3
  /\ input.edges[3].el[3].t \in {"inf", "nan"}

(* C8: in weight mode, on a graph without parallel edges, every matched    *)
(* pair is joined by an edge of weight >= 0, so a graph whose weights are  *)
(* all negative yields an array of -1 only; in cardinality mode a pair     *)
(* joined by a negative edge is matched whenever the graph has a matching  *)
(* with more pairs than any matching of its non-negative edges.            *)
C8_NegativeEdges ==
  pc = "done" =>
    /\ (~maxCardinality /\ noParallelEdges(InputEdges)) =>
         /\ \A v \in 0..(Len(result) - 1) :
              result[v + 1] # UNMATCHED => pairWeight(InputEdges, v, result[v + 1]) >= 0
         /\ (\A k \in 1..Len(InputEdges) : InputEdges[k][3] < 0) =>
              \A v \in 0..(Len(result) - 1) : result[v + 1] = UNMATCHED
    /\ (/\ maxCardinality
        /\ bruteCardinality(InputEdges, 1, {})
             > bruteCardinality(nonNegative(InputEdges, 1), 1, {})) =>
         \E v \in 0..(Len(result) - 1) :
           /\ result[v + 1] # UNMATCHED
           /\ pairWeight(InputEdges, v, result[v + 1]) < 0

(* a call in weight mode has returned with a pair matched and has left     *)
(* alone a vertex whose only edges are negative                            *)
C8_Witness ==
  /\ pc = "done"
  /\ ~maxCardinality
  /\ noParallelEdges(InputEdges)
  /\ pairsOf(result) # {}
  /\ \E k \in 1..Len(InputEdges) :
       /\ InputEdges[k][3] < 0
       /\ result[InputEdges[k][1] + 1] = UNMATCHED

(* the call of the test 'should create nested S-blossom, use for           *)
(* augmentation' has returned                                              *)
nestedSBlossomReturned ==
  /\ pc = "done"
  /\ input = Call(RawEdges(SuiteNestedSBlossom), "undefined")

(* C9 as stated: on (1,2,9),(1,3,9),(2,3,10),(2,4,8),(3,5,8),(4,5,10),     *)
(* (5,6,6) in weight mode the call returns [-1,3,4,1,2,6,5], contracts at  *)
(* least one blossom and later expands one.                                *)
C9_ContractsAndExpands ==
  nestedSBlossomReturned =>
    /\ result = <<-1, 3, 4, 1, 2, 6, 5>>
    /\ calls.addBlossom >= 1
    /\ calls.expandBlossom >= 1

(* C9: on (1,2,9),(1,3,9),(2,3,10),(2,4,8),(3,5,8),(4,5,10),(5,6,6) in     *)
(* weight mode the call returns [-1,3,4,1,2,6,5]; the run contracts at     *)
(* least one blossom and augments through it, and expands none: neither in *)
(* the search nor at the end of a stage.                                   *)
C9_ContractsNeverExpands ==
  nestedSBlossomReturned =>
    /\ result = <<-1, 3, 4, 1, 2, 6, 5>>
    /\ calls.addBlossom >= 1
    /\ calls.augmentMatching >= 1
    /\ calls.expandBlossom = 0
    /\ Len(unusedBlossoms) = nVertex - calls.addBlossom

(* that call has returned, having contracted two blossoms, one inside the  *)
(* other                                                                   *)
C9_Witness ==
  /\ nestedSBlossomReturned
  /\ calls.addBlossom >= 2
  /\ \E b \in DOMAIN blossomParent : blossomParent[b] >= nVertex

(* the four inputs of the tests in which a blossom is relabelled T in more *)
(* than one way, with the arrays the tests expect                          *)
relabelledTExpected ==
  {<<SuiteTMoreThanOneWay1, <<-1, 6, 3, 2, 8, 7, 1, 5, 4, 10, 9>>>>,
   <<SuiteTMoreThanOneWay2, <<-1, 6, 3, 2, 8, 7, 1, 5, 4, 10, 9>>>>,
   <<SuiteTLeastSlack, <<-1, 6, 3, 2, 8, 7, 1, 5, 4, 10, 9>>>>,
   <<SuiteNestedTMoreThanOneWay, <<-1, 8, 3, 2, 6, 9, 4, 10, 1, 5, 7, 12, 11>>>>}

(* C10: when a blossom created as an S-blossom is later labelled T,        *)
(* reached directly by more than one tight edge and expanded in the        *)
(* search, the returned matching is still the optimal one: the three       *)
(* 10-edge inputs return [-1,6,3,2,8,7,1,5,4,10,9] and the 13-edge nested  *)
(* input returns [-1,8,3,2,6,9,4,10,1,5,7,12,11].                          *)
C10_RelabelledTOptimal ==
  \A c \in relabelledTExpected :
    (pc = "done" /\ input = Call(RawEdges(c[1]), "undefined")) =>
      /\ result = c[2]
      /\ calls.addBlossom >= 1
      /\ calls.directT >= 1
      /\ calls.expandInSearch >= 1
      /\ matchedWeight(InputEdges, result) = bruteWeight(InputEdges, 1, {})

(* the call on the nested input has returned after it contracted two       *)
(* blossoms, labelled a vertex inside a T-blossom directly and expanded a  *)
(* blossom in the search                                                   *)
C10_Witness ==
  /\ pc = "done"
  /\ input = Call(RawEdges(SuiteNestedTMoreThanOneWay), "undefined")
  /\ calls.addBlossom >= 2
  /\ calls.directT >= 1
  /\ calls.expandInSearch >= 1

----------------------------------------------------------------------------
(* C11: dual feasibility is an invariant of the run: after the setup,      *)
(* where every vertex dual is max(0, all weights) and every blossom dual   *)
(* is 0, and after every step of the search, dual adjustment, contraction, *)
(* expansion and augmentation, every edge (i, j, w) whose endpoints lie in *)
(* different top-level blossoms has dualVar[i] + dualVar[j] - 2w >= 0.     *)
(* The code breaks it: see SuiteTMoreThanOneWay1 in weight mode, where the *)
(* expansion of a T-blossom erases the label of a vertex that a tight edge *)
(* had reached, and the next delta drives that edge's slack below 0.       *)
C11_DualFeasible ==
  /\ lastOp = "construct" =>
       /\ maxWeight >= 0
       /\ \A k \in 1..Len(edges) : edges[k][3] <= maxWeight
       /\ maxWeight = 0 \/ \E k \in 1..Len(edges) : edges[k][3] = maxWeight
       /\ \A x \in DOMAIN dualVar : dualVar[x] = IF x < nVertex THEN maxWeight ELSE 0
  /\ \A k \in 1..Len(edges) :
       inBlossom[edges[k][1]] # inBlossom[edges[k][2]] =>
         dualVar[edges[k][1]] + dualVar[edges[k][2]] - 2 * edges[k][3] >= 0

(* the active top-level blossoms: contracted, with a base and no parent *)
topBlossoms ==
  {b \in DOMAIN blossomBase :
     b >= nVertex /\ blossomBase[b] >= 0 /\ blossomParent[b] = UNMATCHED}

(* C12 as stated: at every point of a stage outside scanBlossom, every     *)
(* active top-level blossom b has label[b] = label[blossomBase[b]].        *)
C12_LabelOfBase ==
  pc \in {"search", "edges"} =>
    \A b \in topBlossoms : label[b] = label[blossomBase[b]]

(* C12: while a stage searches (after PHASE 1 and until it augments or     *)
(* ends), every active top-level blossom b has a label in {0, 1, 2}; if it *)
(* is S, its base vertex is labelled S too; if it is T, the vertex through *)
(* which it was reached, endpoint[labelEnd[b] ^ 1], is labelled T (its     *)
(* base vertex need not be); if it is unlabeled, no vertex in it has a     *)
(* label.                                                                  *)
C12_LabelOfBaseOrEntry ==
  pc \in {"search", "edges"} =>
    \A b \in topBlossoms :
      /\ label[b] \in {UNLABELED, VERTEX_LABEL_S, VERTEX_LABEL_T}
      /\ label[b] = VERTEX_LABEL_S => label[blossomBase[b]] = VERTEX_LABEL_S
      /\ label[b] = VERTEX_LABEL_T =>
           /\ inBlossom[endpoint[XorOne(labelEnd[b])]] = b
           /\ label[endpoint[XorOne(labelEnd[b])]] = VERTEX_LABEL_T
      /\ label[b] = UNLABELED =>
           \A v \in 0..(nVertex - 1) : inBlossom[v] = b => label[v] = UNLABELED

(* the search has labelled a top-level blossom T through a vertex that is  *)
(* not its base, and the base has no label                                 *)
C12_Witness ==
  /\ pc \in {"search", "edges"}
  /\ \E b \in topBlossoms :
       /\ label[b] = VERTEX_LABEL_T
       /\ endpoint[XorOne(labelEnd[b])] # blossomBase[b]
       /\ label[blossomBase[b]] = UNLABELED

(***************************************************************************)
(* C13: at the start and at the end of every stage, before mate is         *)
(* translated into vertex ids, every vertex v with mate[v] = p >= 0 has    *)
(* mate[endpoint[p ^ 1]] = p ^ 1.                                          *)
(***************************************************************************)
stageBoundary == pc \in {"stage", "cleanup", "translate"}

C13_MateOwnEndpoint ==
  stageBoundary =>
    \A v \in 0..(nVertex - 1) :
      mate[v] >= 0 => mate[endpoint[XorOne(mate[v])]] = XorOne(mate[v])

(***************************************************************************)
(* C13, as the code has it: mate[v] = p >= 0 is the endpoint of the        *)
(* matched edge at the partner of v, p ^ 1 is the endpoint at v itself,    *)
(* and the partner is matched back through p ^ 1:                          *)
(* endpoint[p ^ 1] = v and mate[endpoint[p]] = p ^ 1, at the start and at  *)
(* the end of every stage and at every step between.                       *)
(***************************************************************************)
C13_MateSymmetric ==
  pc \in {"stage", "search", "edges", "cleanup", "translate"} =>
    \A v \in 0..(nVertex - 1) :
      mate[v] >= 0 =>
        /\ endpoint[XorOne(mate[v])] = v
        /\ mate[endpoint[mate[v]]] = XorOne(mate[v])

(* a stage has ended with an augmentation through a blossom, two pairs     *)
(* are matched                                                             *)
C13_Witness ==
  /\ pc = "cleanup"
  /\ calls.addBlossom >= 1
  /\ calls.augmentMatching >= 2
  /\ Cardinality({v \in 0..(nVertex - 1) : mate[v] >= 0}) >= 4

(* the blossom directly around x: its parent, x itself when it has none *)
innermostBlossom(x) == IF blossomParent[x] = UNMATCHED THEN x ELSE blossomParent[x]

RECURSIVE outermostFrom(_, _)
(* the blossom with no parent at the end of the blossomParent chain of x *)
outermostFrom(x, fuel) ==
  IF blossomParent[x] = UNMATCHED \/ fuel = 0 THEN x
  ELSE outermostFrom(blossomParent[x], fuel - 1)

outermostBlossom(x) == outermostFrom(x, 2 * nVertex)

(* a blossom lies inside another blossom *)
someNestedBlossom ==
  \E b \in DOMAIN blossomParent :
    b >= nVertex /\ blossomBase[b] >= 0 /\ blossomParent[b] # UNMATCHED

(***************************************************************************)
(* C14: after every contraction and expansion, nested blossoms included,   *)
(* inBlossom[v] is for every vertex v the innermost active blossom that    *)
(* contains v (v itself if v is in no blossom), and it is a vertex id or   *)
(* the id of a blossom with blossomBase >= 0.                              *)
(***************************************************************************)
C14_InBlossomInnermost ==
  \A v \in 0..(nVertex - 1) :
    /\ inBlossom[v] = innermostBlossom(v)
    /\ inBlossom[v] < nVertex \/ blossomBase[inBlossom[v]] >= 0

(***************************************************************************)
(* C14, as the code has it: inBlossom[v] is the OUTERMOST (top-level)      *)
(* active blossom that contains v, the one with no parent at the end of    *)
(* the blossomParent chain of v, and v itself if v is in no blossom; its   *)
(* value is v or the id of a blossom with blossomBase >= 0 and no parent.  *)
(***************************************************************************)
C14_InBlossomOutermost ==
  \A v \in 0..(nVertex - 1) :
    /\ inBlossom[v] = outermostBlossom(v)
    /\ blossomParent[inBlossom[v]] = UNMATCHED
    /\ inBlossom[v] = v \/ (inBlossom[v] >= nVertex /\ blossomBase[inBlossom[v]] >= 0)

(* a blossom has been contracted around another blossom: the vertices of   *)
(* the inner one are mapped to the outer one                               *)
C14_Witness ==
  /\ someNestedBlossom
  /\ calls.addBlossom >= 2
  /\ \E v \in 0..(nVertex - 1) : inBlossom[v] # innermostBlossom(v)

(* the ids in the free list, and the ids of the blossoms that exist *)
freeBlossoms == {unusedBlossoms[i] : i \in 1..Len(unusedBlossoms)}

activeBlossoms == {b \in DOMAIN blossomBase : b >= nVertex /\ blossomBase[b] >= 0}

(***************************************************************************)
(* C15: at most n - 1 blossoms exist at a time, so the free list is never  *)
(* empty when addBlossom pops from it; every id in use or free lies in     *)
(* n..2n-1; the free ids and the ids of the active blossoms                *)
(* (blossomBase >= 0) partition n..2n-1, and no id is twice in the free    *)
(* list.                                                                   *)
(***************************************************************************)
C15_FreeListPartition ==
  nVertex > 0 =>
    /\ Cardinality(activeBlossoms) <= nVertex - 1
    /\ Len(unusedBlossoms) >= 1
    /\ freeBlossoms \cup activeBlossoms = nVertex..(2 * nVertex - 1)
    /\ freeBlossoms \cap activeBlossoms = {}
    /\ Cardinality(freeBlossoms) = Len(unusedBlossoms)

(* a blossom has been expanded and its id pushed back on the free list     *)
(* while an older blossom, with a higher id, is still active               *)
C15_Witness ==
  /\ calls.expandBlossom >= 1
  /\ Len(unusedBlossoms) = nVertex - 1
  /\ \E b \in activeBlossoms : b > unusedBlossoms[Len(unusedBlossoms)]

(* the vertices matched under the array m of remote endpoints *)
matchedIn(m) == {v \in 0..(nVertex - 1) : m[v] >= 0}

(* the step is the augmentation of a stage *)
augmentStep == pc = "edges" /\ pc' = "cleanup"

(* what a step of a stage does to the matching and to the flag augmented *)
stageStep ==
  pc \in {"stage", "search", "edges", "cleanup"} =>
    /\ augmentStep =>
          /\ ~augmented /\ augmented'
          /\ calls'.augmentMatching = calls.augmentMatching + 1
          /\ Cardinality(matchedIn(mate')) = Cardinality(matchedIn(mate)) + 2
          /\ matchedIn(mate) \subseteq matchedIn(mate')
    /\ ~augmentStep => mate' = mate /\ calls'.augmentMatching = calls.augmentMatching
    /\ augmented =>
          \/ pc = "cleanup" /\ pc' = "stage" /\ t' = t + 1
          \/ pc = "stage" /\ (~augmented' \/ pc' = "translate")
    /\ pc' \in {"stage", "search", "edges", "cleanup"} =>
          Cardinality(matchedIn(mate')) = 2 * calls'.augmentMatching

(***************************************************************************)
(* C16: each stage performs at most one augmentation (it needs             *)
(* augmented = false and sets it, after which the stage only cleans up,    *)
(* and the flag is cleared by the start of the next stage only); the       *)
(* augmentation raises the number of matched vertices by exactly 2 and     *)
(* unmatches no vertex; no other step of a stage changes mate, so the      *)
(* size of the matching never decreases from stage to stage.               *)
(***************************************************************************)
C16_OneAugmentationPerStage == [][stageStep]_vars

(* the third stage has augmented along a path through matched vertices     *)
C16_Witness ==
  /\ pc = "cleanup"
  /\ augmented
  /\ t = 2
  /\ calls.augmentMatching = 3
  /\ Cardinality(matchedIn(mate)) = 6
  /\ calls.directT >= 1

(* The candidates of a dual adjustment, each with twice its value and its  *)
(* place in the scan order: Type 1, Type 2 by vertex, Type 3 by blossom,   *)
(* Type 4 by blossom.  ref is the edge of Types 2 and 3, the blossom of    *)
(* Type 4.                                                                 *)
deltaCandidates ==
  {[deltaType |-> DELTA_TYPE_DUAL_DECREASE, place |-> 0, ref |-> UNMATCHED,
    delta2 |-> 2 * (CHOOSE m \in {dualVar[v] : v \in 0..(nVertex - 1)} :
                      \A v \in 0..(nVertex - 1) : m <= dualVar[v])] :
     x \in {y \in {0} : ~maxCardinality}}
  \cup
  {[deltaType |-> DELTA_TYPE_EDGE_SLACK, place |-> v, ref |-> bestEdge[v],
    delta2 |-> 2 * (dualVar[edges[bestEdge[v] + 1][1]] + dualVar[edges[bestEdge[v] + 1][2]]
                    - 2 * edges[bestEdge[v] + 1][3])] :
     v \in {u \in 0..(nVertex - 1) :
              label[inBlossom[u]] = UNLABELED /\ bestEdge[u] # UNMATCHED}}
  \cup
  {[deltaType |-> DELTA_TYPE_BLOSSOM_SLACK, place |-> b, ref |-> bestEdge[b],
    delta2 |-> dualVar[edges[bestEdge[b] + 1][1]] + dualVar[edges[bestEdge[b] + 1][2]]
               - 2 * edges[bestEdge[b] + 1][3]] :
     b \in {c \in 0..(2 * nVertex - 1) :
              /\ blossomParent[c] = UNMATCHED
              /\ label[c] = VERTEX_LABEL_S
              /\ bestEdge[c] # UNMATCHED}}
  \cup
  {[deltaType |-> DELTA_TYPE_BLOSSOM_EXPAND, place |-> b, ref |-> b,
    delta2 |-> 2 * dualVar[b]] :
     b \in {c \in topBlossoms : label[c] = VERTEX_LABEL_T}}

(* c comes before d in the scan order *)
scannedBefore(c, d) ==
  c.deltaType < d.deltaType \/ (c.deltaType = d.deltaType /\ c.place <= d.place)

(* the earliest of the candidates with the least value *)
earliestLeast(c) ==
  /\ c \in deltaCandidates
  /\ \A d \in deltaCandidates :
        c.delta2 < d.delta2 \/ (c.delta2 = d.delta2 /\ scannedBefore(c, d))

(* a dual adjustment is due: the queue is empty, the stage has not augmented *)
adjusting == pc = "search" /\ Len(queue) = 0 /\ ~augmented

(* the choice of a dual adjustment, and what follows when it is Type 1 *)
deltaStep ==
  /\ adjusting =>
        \E d \in {chooseDelta(Engine)} :
          /\ deltaCandidates # {} =>
                \E c \in deltaCandidates :
                  /\ earliestLeast(c)
                  /\ d.deltaType = c.deltaType
                  /\ d.delta2 = c.delta2
                  /\ c.deltaType \in {DELTA_TYPE_EDGE_SLACK, DELTA_TYPE_BLOSSOM_SLACK}
                        => d.deltaEdge = c.ref
                  /\ c.deltaType = DELTA_TYPE_BLOSSOM_EXPAND => d.deltaBlossom = c.ref
          /\ d.deltaType = DELTA_TYPE_DUAL_DECREASE =>
                /\ pc' = "translate"
                /\ ~augmented'
                /\ mate' = mate
                /\ t' = t
  /\ pc = "translate" => pc' = "done"

(***************************************************************************)
(* C17: in each dual adjustment delta is the minimum over the applicable   *)
(* candidates (Type 1 in weight mode only, Type 2 per unlabeled vertex,    *)
(* Type 3 per top-level S-blossom, Type 4 per top-level T-blossom) and of  *)
(* several minimal candidates the earliest in the scan order wins; when    *)
(* Type 1 wins the stage ends without augmenting and the call goes on to   *)
(* the translation and returns, with no later stage.                       *)
(***************************************************************************)
C17_EarliestLeastDelta == [][deltaStep]_vars

(* a dual adjustment is due in which candidates of two different types     *)
(* tie for the least value                                                 *)
C17_Witness ==
  /\ adjusting
  /\ \E c \in deltaCandidates :
       /\ earliestLeast(c)
       /\ \E d \in deltaCandidates : d.delta2 = c.delta2 /\ d.deltaType > c.deltaType
                                       /\ c.deltaType # DELTA_TYPE_DUAL_DECREASE

(* how often delta is added to the dual of x by PHASE 4: -1 for a vertex   *)
(* whose top-level blossom is S, +1 when it is T, +1 for a top-level       *)
(* S-blossom, -1 for a top-level T-blossom, 0 for everything else          *)
deltaSign(x) ==
  IF x < nVertex
  THEN CASE label[inBlossom[x]] = VERTEX_LABEL_S -> -1
         [] label[inBlossom[x]] = VERTEX_LABEL_T -> 1
         [] OTHER -> 0
  ELSE IF x \in topBlossoms
  THEN CASE label[x] = VERTEX_LABEL_S -> 1
         [] label[x] = VERTEX_LABEL_T -> -1
         [] OTHER -> 0
  ELSE 0

(* a dual adjustment whose delta is a whole number is applied by the step *)
dualStep ==
  (adjusting /\ pc' \in {"search", "translate"}) =>
    \E delta2 \in {chooseDelta(Engine).delta2} :
      /\ DOMAIN dualVar' = DOMAIN dualVar
      /\ \A x \in DOMAIN dualVar :
            2 * dualVar'[x] = 2 * dualVar[x] + deltaSign(x) * delta2
      /\ [applyDelta(Engine, delta2 \div 2) EXCEPT !.dualVar = dualVar] = Engine

(***************************************************************************)
(* C18: applying delta changes the duals as follows and nothing else:      *)
(* every vertex whose top-level blossom is S loses delta, every vertex     *)
(* whose top-level blossom is T gains delta, every top-level S-blossom     *)
(* gains delta, every top-level T-blossom loses delta; the duals of        *)
(* unlabeled vertices, of unlabeled top-level blossoms, of nested blossoms *)
(* and of unallocated blossom ids are unchanged.                           *)
(***************************************************************************)
C18_DeltaApplied == [][dualStep]_vars

(* a delta has just been applied while a top-level T-blossom with a dual   *)
(* left above 0 and S-vertices with lowered duals existed                  *)
C18_Witness ==
  /\ lastOp \in {"delta2", "delta3"}
  /\ \E b \in topBlossoms : label[b] = VERTEX_LABEL_T /\ dualVar[b] > 0
  /\ \E v \in 0..(nVertex - 1) : label[inBlossom[v]] = VERTEX_LABEL_S /\ dualVar[v] < maxWeight

(* the vertex at the other end of the edge the loop of PHASE 2 is at *)
adjacentVertex == endpoint[neighbend[currentVertex][nbIndex]]

(* The edge loop is about to call scanBlossom(currentVertex,               *)
(* adjacentVertex): the two vertices lie in different top-level blossoms,  *)
(* both labelled S, and the edge between them is allowed or tight.         *)
scanCall ==
  /\ pc = "edges"
  /\ inBlossom[currentVertex] # inBlossom[adjacentVertex]
  /\ label[inBlossom[currentVertex]] = VERTEX_LABEL_S
  /\ label[inBlossom[adjacentVertex]] = VERTEX_LABEL_S
  /\ \E k \in {neighbend[currentVertex][nbIndex] \div 2} :
       \/ allowEdge[k]
       \/ dualVar[edges[k + 1][1]] + dualVar[edges[k + 1][2]] - 2 * edges[k + 1][3] <= 0

(* the top-level S-blossom two tree edges above the top-level S-blossom b: *)
(* over the edge that labelled b to a T-blossom, over the edge that        *)
(* labelled the T-blossom to its S-parent                                  *)
treeParent(b) ==
  Get(inBlossom,
      Get(endpoint,
          Get(labelEnd, Get(inBlossom, Get(endpoint, Get(labelEnd, b))))))

RECURSIVE treePath(_, _)
(* the top-level S-blossoms from b up to the root of its alternating tree *)
treePath(b, fuel) ==
  IF Get(labelEnd, b) = UNMATCHED \/ fuel = 0 THEN <<b>>
  ELSE <<b>> \o treePath(treeParent(b), fuel - 1)

pathOf(v) == treePath(inBlossom[v], 2 * nVertex)

rootOf(v) == pathOf(v)[Len(pathOf(v))]

(* the first blossom of the tree path of v that is on the tree path of w *)
firstCommon(v, w) ==
  LET onW == {pathOf(w)[i] : i \in 1..Len(pathOf(w))}
      i == CHOOSE j \in 1..Len(pathOf(v)) :
             pathOf(v)[j] \in onW /\ \A h \in 1..(j - 1) : pathOf(v)[h] \notin onW
  IN pathOf(v)[i]

(***************************************************************************)
(* C19: scanBlossom(v, w), called for two S-vertices in different          *)
(* top-level blossoms joined by an allowed edge, returns a vertex id >= 0  *)
(* exactly when v and w are in the same alternating tree, and the id is    *)
(* the base of the first top-level blossom common to the two tree paths;   *)
(* it returns -1 exactly when the two walks end at two different roots.    *)
(***************************************************************************)
C19_ScanBlossomBase ==
  scanCall =>
    \E base \in {scanBlossom(Engine, currentVertex, adjacentVertex).base} :
      /\ base \in {UNMATCHED} \cup (0..(nVertex - 1))
      /\ base >= 0 <=> rootOf(currentVertex) = rootOf(adjacentVertex)
      /\ base >= 0 =>
            base = blossomBase[firstCommon(currentVertex, adjacentVertex)]
      /\ base = UNMATCHED <=> rootOf(currentVertex) # rootOf(adjacentVertex)
      /\ Get(labelEnd, rootOf(currentVertex)) = UNMATCHED
      /\ Get(labelEnd, rootOf(adjacentVertex)) = UNMATCHED

(* scanBlossom is called in one tree whose two paths fork below the root:  *)
(* the first common blossom is neither the root nor the blossom of either  *)
(* vertex                                                                  *)
C19_Witness ==
  /\ scanCall
  /\ rootOf(currentVertex) = rootOf(adjacentVertex)
  /\ \E c \in {firstCommon(currentVertex, adjacentVertex)} :
       /\ c # inBlossom[currentVertex]
       /\ c # inBlossom[adjacentVertex]
       /\ c # rootOf(currentVertex)

(* the blossoms that the walk of scanBlossom(currentVertex,                *)
(* adjacentVertex) marks                                                   *)
markedByScan ==
  LET path == scanLoop(Engine, currentVertex, adjacentVertex, <<>>,
                       BLOSSOM_MULTIPLIER * WalkLimit).path
  IN {path[i] : i \in 1..Len(path)}

(***************************************************************************)
(* C20: scanBlossom changes no persistent state: when it returns the label *)
(* array is the one of the call (every blossom it marked with 5 was S      *)
(* before and is S again, no entry holds 5), and labelEnd, mate, inBlossom *)
(* and the duals, like every other field, are untouched.                   *)
(***************************************************************************)
C20_ScanBlossomRestores ==
  /\ \A b \in DOMAIN label : label[b] # BREADCRUMB
  /\ scanCall =>
       /\ \A b \in markedByScan : label[b] = VERTEX_LABEL_S
       /\ \E after \in {scanBlossom(Engine, currentVertex, adjacentVertex).s} :
            /\ after.label = label
            /\ after.labelEnd = labelEnd
            /\ after.mate = mate
            /\ after.inBlossom = inBlossom
            /\ after.dualVar = dualVar
            /\ after = Engine

(* scanBlossom is called and marks at least three blossoms, one of them a  *)
(* contracted blossom, before it finds a common blossom                    *)
C20_Witness ==
  /\ scanCall
  /\ Cardinality(markedByScan) >= 3
  /\ \E b \in markedByScan : b >= nVertex
  /\ scanBlossom(Engine, currentVertex, adjacentVertex).base >= 0

(* the step contracts a blossom: the edge loop has called addBlossom *)
contractStep == pc = "edges" /\ lastOp' = "addBlossom"

(* the vertices queued by the step, in the order of their push *)
pushedByStep == SubSeq(queue', Len(queue) + 1, Len(queue'))

(* what addBlossom(base, k) leaves behind, b being the id it popped *)
blossomAdded ==
  contractStep =>
    \E b \in {unusedBlossoms[Len(unusedBlossoms)]},
       base \in {scanBlossom(Engine, currentVertex, adjacentVertex).base} :
      /\ blossomParent'[b] = UNMATCHED
      /\ label'[b] = VERTEX_LABEL_S
      /\ dualVar'[b] = 0
      /\ blossomBase'[b] = base
      /\ labelEnd'[b] = labelEnd[inBlossom[base]]
      /\ Len(blossomChilds'[b]) >= 3
      /\ Len(blossomChilds'[b]) % 2 = 1
      /\ Len(blossomEndPs'[b]) = Len(blossomChilds'[b])
      /\ \A i \in 1..Len(blossomChilds'[b]) : blossomParent'[blossomChilds'[b][i]] = b
      /\ \A v \in 0..(nVertex - 1) :
            IF \E i \in 1..Len(blossomChilds'[b]) : inBlossom[v] = blossomChilds'[b][i]
            THEN /\ inBlossom'[v] = b
                 /\ label[inBlossom[v]] = VERTEX_LABEL_T
                       => \E j \in 1..Len(pushedByStep) : pushedByStep[j] = v
            ELSE inBlossom'[v] = inBlossom[v]

(***************************************************************************)
(* C21: after addBlossom(base, k) has created blossom b, b is top-level    *)
(* with label S, dualVar[b] = 0, blossomBase[b] = base and the labelEnd of *)
(* the former base blossom; every leaf of every child has inBlossom = b;   *)
(* every leaf whose former top-level blossom was labelled T has been       *)
(* pushed on the queue; the children are an odd number, at least 3, and    *)
(* blossomEndPs has the same length.                                       *)
(***************************************************************************)
C21_BlossomAdded == [][blossomAdded]_vars

(* addBlossom has just contracted a cycle of five children, one of them a  *)
(* blossom, and queued the vertices of its T-children                      *)
C21_Witness ==
  /\ lastOp = "addBlossom"
  /\ \E b \in topBlossoms :
       /\ b \notin freeBlossoms
       /\ b = Len(unusedBlossoms) + nVertex
       /\ Len(blossomChilds[b]) >= 5
       /\ \E i \in 1..Len(blossomChilds[b]) : blossomChilds[b][i] >= nVertex
       /\ label[b] = VERTEX_LABEL_S

RECURSIVE expandedAtCleanup(_, _)
(* the blossom b is expanded by the cleanup of the stage: it is an active  *)
(* top-level blossom with label S and dual 0, or a blossom with dual 0     *)
(* directly inside a blossom that is expanded                              *)
expandedAtCleanup(b, fuel) ==
  /\ b >= nVertex
  /\ blossomBase[b] >= 0
  /\ dualVar[b] = 0
  /\ IF blossomParent[b] = UNMATCHED THEN label[b] = VERTEX_LABEL_S
     ELSE fuel > 0 /\ expandedAtCleanup(blossomParent[b], fuel - 1)

RECURSIVE containedIn(_, _, _)
(* x is c or lies inside the blossom c *)
containedIn(x, c, fuel) ==
  \/ x = c
  \/ blossomParent[x] # UNMATCHED /\ fuel > 0 /\ containedIn(blossomParent[x], c, fuel - 1)

(* what the cleanup of a stage does, and that no other way out of a stage  *)
(* expands anything                                                        *)
cleanupStep ==
  /\ pc = "cleanup" =>
       /\ augmented
       /\ \A b \in nVertex..(2 * nVertex - 1) :
            IF expandedAtCleanup(b, nVertex)
            THEN blossomBase'[b] = UNMATCHED /\ b \in {unusedBlossoms'[i] : i \in 1..Len(unusedBlossoms')}
            ELSE blossomBase'[b] = blossomBase[b] /\ blossomChilds'[b] = blossomChilds[b]
       /\ \A c \in 0..(2 * nVertex - 1) :
            (blossomParent[c] # UNMATCHED /\ expandedAtCleanup(blossomParent[c], nVertex)) =>
              /\ blossomParent'[c] = UNMATCHED
              /\ c < nVertex => inBlossom'[c] = c
              /\ (c >= nVertex /\ dualVar[c] # 0) =>
                    /\ blossomBase'[c] = blossomBase[c]
                    /\ \A v \in 0..(nVertex - 1) :
                          containedIn(v, c, nVertex) => inBlossom'[v] = c
       /\ \A b \in nVertex..(2 * nVertex - 1) :
            (blossomBase'[b] >= 0 /\ blossomParent'[b] = UNMATCHED
               /\ label'[b] = VERTEX_LABEL_S) => dualVar'[b] # 0
  /\ (pc \in {"stage", "search", "edges"} /\ pc' = "translate") =>
       /\ blossomBase' = blossomBase
       /\ blossomParent' = blossomParent
       /\ inBlossom' = inBlossom
       /\ unusedBlossoms' = unusedBlossoms

(***************************************************************************)
(* C22: immediately after the cleanup that follows a stage that augmented  *)
(* no active top-level blossom with label S has dual 0: each such blossom  *)
(* has been expanded, its child blossoms of dual 0 have been expanded      *)
(* recursively, and each child blossom of non-zero dual has become         *)
(* top-level with inBlossom of its leaves pointing at it; a stage that     *)
(* did not augment is followed by no cleanup.                              *)
(***************************************************************************)
C22_CleanupExpandsZeroDuals == [][cleanupStep]_vars

(* a cleanup has expanded a blossom of dual 0 and has left the blossom     *)
(* inside it, whose dual is not 0, as a top-level blossom                  *)
C22_Witness ==
  /\ lastOp = "cleanup"
  /\ pc = "stage"
  /\ calls.expandBlossom >= 1
  /\ calls.expandInSearch = 0
  /\ \E b \in topBlossoms :
       /\ dualVar[b] > 0
       /\ inBlossom[blossomBase[b]] = b

(* list turned by k places: its element k + 1 comes first *)
turned(list, k) == [i \in 1..Len(list) |-> list[((i - 1 + k) % Len(list)) + 1]]

(* the vertices inside the blossom b *)
verticesIn(b) == {u \in 0..(nVertex - 1) : containedIn(u, b, nVertex)}

(* every vertex of b but its base is matched, under mate array m, to a     *)
(* vertex of b                                                             *)
matchedInside(m, b, base) ==
  \A u \in verticesIn(b) \ {base} : m[u] >= 0 /\ endpoint[m[u]] \in verticesIn(b)

(* the engine s is what augmentBlossom(b, v) makes of the current engine *)
augmentedAt(s, b, v) ==
  /\ ~s.hung
  /\ s.blossomBase[b] = v
  /\ \E k \in 0..(Len(blossomChilds[b]) - 1) :
       /\ s.blossomChilds[b] = turned(blossomChilds[b], k)
       /\ s.blossomEndPs[b] = turned(blossomEndPs[b], k)
  /\ containedIn(v, s.blossomChilds[b][1], nVertex)
  /\ {s.blossomChilds[b][i] : i \in 1..Len(s.blossomChilds[b])}
       = {blossomChilds[b][i] : i \in 1..Len(blossomChilds[b])}
  /\ matchedInside(s.mate, b, v)

(* augmentBlossom applied to any active blossom and any of its vertices,   *)
(* and what a step that augments leaves of the blossoms it went through   *)
blossomAugmented ==
  /\ pc \in {"stage", "search", "edges", "cleanup"} =>
       \A b \in activeBlossoms : \A v \in verticesIn(b) :
         augmentedAt(augmentBlossom(Engine, b, v), b, v)
  /\ augmentStep =>
       \A b \in activeBlossoms :
         /\ blossomBase'[b] \in verticesIn(b)
         /\ \E k \in 0..(Len(blossomChilds[b]) - 1) :
              /\ blossomChilds'[b] = turned(blossomChilds[b], k)
              /\ blossomEndPs'[b] = turned(blossomEndPs[b], k)
         /\ containedIn(blossomBase'[b], blossomChilds'[b][1], nVertex)
         /\ matchedInside(mate', b, blossomBase'[b])

(***************************************************************************)
(* C23: after augmentBlossom(b, v), for a vertex v contained in blossom b, *)
(* blossomBase[b] = v, blossomChilds[b] and blossomEndPs[b] are cyclic     *)
(* rotations of their previous values with the child that contains v in    *)
(* first position, the set of children is unchanged, and every leaf of b   *)
(* other than v is matched to another leaf of b.                           *)
(***************************************************************************)
C23_AugmentBlossom == [][blossomAugmented]_vars

(* an augmentation has just gone through a blossom that holds another      *)
(* blossom, and has moved its base                                         *)
C23_Witness ==
  /\ lastOp = "augment"
  /\ \E b \in topBlossoms :
       /\ \E i \in 1..Len(blossomChilds[b]) : blossomChilds[b][i] >= nVertex
       /\ mate[blossomBase[b]] >= 0
       /\ endpoint[mate[blossomBase[b]]] \notin verticesIn(b)
       /\ blossomChilds[b][1] # blossomBase[b]

(* the engine that the step about to be taken makes, for the steps that    *)
(* can call assignLabel; the current engine for the others                 *)
engineOfStep ==
  IF pc = "stage" /\ t < nVertex THEN startStage(Engine)
  ELSE IF pc = "edges"
    THEN examineEdge(Engine, currentVertex, neighbend[currentVertex][nbIndex],
                     edgeCase(Engine, currentVertex, neighbend[currentVertex][nbIndex]))
  ELSE IF adjusting /\ chooseDelta(Engine).delta2 % 2 = 0
    THEN deltaAction(applyDelta(Engine, chooseDelta(Engine).delta2 \div 2),
                     chooseDelta(Engine))
  ELSE Engine

(* the indices 0..len-1 of an array of the engine *)
indicesOf(a, len) == DOMAIN a = 0..(len - 1)

(***************************************************************************)
(* C24: every call of assignLabel(vertex, labelType, labelingEdge) is made *)
(* with a vertex id in [0, n) whose own label and whose top-level          *)
(* blossom's label are both unlabeled at the call and, for a T label,      *)
(* with the base of that blossom matched; no array is ever written at -1   *)
(* or at an undefined index.                                               *)
(***************************************************************************)
C24_AssignLabelEntry ==
  /\ ~engineOfStep.strayLabel
  /\ nVertex > 0 =>
       /\ indicesOf(label, 2 * nVertex)
       /\ indicesOf(labelEnd, 2 * nVertex)
       /\ indicesOf(bestEdge, 2 * nVertex)

(* the step expands a T-blossom in mid-search (Type 4) *)
expandStep == adjusting /\ lastOp' = "delta4"

(* The positions in blossomChilds[b], counted from 0, of the children that *)
(* are not on the path from the entry child to the base: the second walk   *)
(* of expandBlossom.  The entry child is the one that holds the vertex at  *)
(* the near end of labelEnd[b].                                            *)
offPath(b) ==
  LET entry == CHOOSE i \in 0..(Len(blossomChilds[b]) - 1) :
                 containedIn(endpoint[XorOne(labelEnd[b])], blossomChilds[b][i + 1], nVertex)
  IN IF entry % 2 = 1 THEN 1..(entry - 1)
     ELSE (entry + 1)..(Len(blossomChilds[b]) - 1)

(* the vertices of the child c that carry a label of their own *)
labelledIn(c) == {u \in verticesIn(c) : label[u] # UNLABELED}

(* the child of b matched with the child c: the one that holds the mate of *)
(* the base of c                                                           *)
pairedWith(b, c) ==
  CHOOSE d \in {blossomChilds[b][i] : i \in 1..Len(blossomChilds[b])} :
    containedIn(endpoint[mate[blossomBase[c]]], d, nVertex)

(* the vertices on the queue after the step *)
queuedAfter == {queue'[i] : i \in 1..Len(queue')}

(* what the expansion of the T-blossom b does to its child c off the path *)
offPathChild(b, c) ==
  /\ (labelledIn(c) = {} /\ labelledIn(pairedWith(b, c)) = {}) =>
        /\ \A x \in 0..(2 * nVertex - 1) :
              containedIn(x, c, nVertex) =>
                label'[x] = label[x] /\ labelEnd'[x] = labelEnd[x]
        /\ verticesIn(c) \cap queuedAfter = {}
  /\ (labelledIn(c) # {} /\ labelledIn(pairedWith(b, c)) = {}) =>
        /\ label'[c] = VERTEX_LABEL_T
        /\ \E v \in labelledIn(c) :
              /\ label[v] = VERTEX_LABEL_T
              /\ label'[v] = VERTEX_LABEL_T
              /\ labelEnd'[c] = labelEnd[v]
        /\ label'[pairedWith(b, c)] = VERTEX_LABEL_S
        /\ verticesIn(pairedWith(b, c)) \subseteq queuedAfter

expandedOffPath ==
  expandStep =>
    \E b \in {chooseDelta(Engine).deltaBlossom} :
      \A i \in offPath(b) : offPathChild(b, blossomChilds[b][i + 1])

(***************************************************************************)
(* C25: in a mid-search expansion of a T-blossom, among the children that  *)
(* are not on the path from the entry child to the base, a child none of   *)
(* whose vertices carries a label is left untouched (no label, labelEnd or *)
(* queue entry of a vertex or blossom of it changes), and a child with a   *)
(* vertex labelled T directly is labelled T through that vertex while the  *)
(* mate of its base is labelled S and queued, whichever of the two         *)
(* children of a matched pair is visited first.                            *)
(***************************************************************************)
C25_OffPathChildren == [][expandedOffPath]_vars

(* the queue is about to be popped *)
popping == pc = "search" /\ Len(queue) > 0 /\ ~augmented

(***************************************************************************)
(* C26: every vertex popped from the search queue lies, at the moment it   *)
(* is popped, in a top-level blossom whose label is S, whether it was      *)
(* queued by assignLabel, by addBlossom or by a Type 2 or Type 3 delta.    *)
(***************************************************************************)
C26_PoppedInS ==
  popping =>
    \E v \in {queue[Len(queue)]} :
      /\ v \in 0..(nVertex - 1)
      /\ blossomParent[inBlossom[v]] = UNMATCHED
      /\ label[inBlossom[v]] = VERTEX_LABEL_S

(* a vertex queued by the Type 2 action is popped next *)
C26_Witness ==
  /\ popping
  /\ lastOp = "delta2"
  /\ label[inBlossom[queue[Len(queue)]]] = VERTEX_LABEL_S

(* the top-level S-blossoms (vertices included) that have a best edge: the *)
(* candidates of Type 3                                                    *)
type3Candidates ==
  {b \in 0..(BLOSSOM_MULTIPLIER * nVertex - 1) :
     /\ blossomParent[b] = UNMATCHED
     /\ label[b] = VERTEX_LABEL_S
     /\ bestEdge[b] # UNMATCHED}

(***************************************************************************)
(* C27: with integer weights every delta and every value stored in dualVar *)
(* is an integer: whenever Type 3 is evaluated, the slack of the best edge *)
(* of every top-level S-blossom is even, so that half of it is an integer. *)
(***************************************************************************)
C27_IntegralDuals ==
  /\ pc # "fractional"
  /\ adjusting =>
        /\ \A b \in type3Candidates : slack(Engine, bestEdge[b]) % 2 = 0
        /\ chooseDelta(Engine).delta2 % 2 = 0

(***************************************************************************)
(* C28: every delta applied is >= 0, the dual of every active blossom is   *)
(* >= 0 at all times in both modes, and in weight mode the dual of every   *)
(* vertex is >= 0 at all times.                                            *)
(***************************************************************************)
C28_DualsNonNegative ==
  /\ adjusting => chooseDelta(Engine).delta2 >= 0
  /\ \A b \in activeBlossoms : dualVar[b] >= 0
  /\ ~maxCardinality => \A v \in 0..(nVertex - 1) : dualVar[v] >= 0

(* in weight mode a positive delta has brought the dual of a vertex to 0   *)
(* while a blossom with a positive dual exists                             *)
C28_Witness ==
  /\ ~maxCardinality
  /\ lastOp \in {"delta1", "delta2", "delta3", "delta4"}
  /\ \E v \in 0..(nVertex - 1) : dualVar[v] = 0
  /\ \E b \in activeBlossoms : dualVar[b] > 0

(* the vertices whose matched edge joins two top-level blossoms *)
matchedAcross ==
  {v \in 0..(nVertex - 1) :
     mate[v] >= 0 /\ inBlossom[v] # inBlossom[endpoint[mate[v]]]}

(***************************************************************************)
(* C29: with integer weights, at the end of every stage every matched edge *)
(* whose endpoints lie in different top-level blossoms is tight            *)
(* (dualVar[i] + dualVar[j] - 2w = 0), and in weight mode, when the stage  *)
(* loop has ended, every unmatched vertex has dual 0.                      *)
(***************************************************************************)
C29_MatchedTight ==
  /\ stageBoundary =>
        \A v \in matchedAcross : slack(Engine, mate[v] \div EDGE_ENDPOINT_COUNT) = 0
  /\ (pc = "translate" /\ ~maxCardinality) =>
        \A v \in 0..(nVertex - 1) : mate[v] = UNMATCHED => dualVar[v] = 0

(***************************************************************************)
(* C30: for every vertex and every active blossom b, blossomLeaves(b)      *)
(* returns exactly the vertices (ids < n) contained in b, each once, and   *)
(* never a blossom id, although it takes a child equal to n for a leaf and *)
(* augmentBlossom recurses only into a child above n: the blossom id n, at *)
(* the bottom of the free list, is never allocated.                        *)
(***************************************************************************)
C30_BlossomLeaves ==
  nVertex > 0 =>
    /\ blossomBase[nVertex] = UNMATCHED
    /\ unusedBlossoms[1] = nVertex
    /\ \A b \in (0..(nVertex - 1)) \cup activeBlossoms :
          \E leaves \in {blossomLeaves(Engine, b)} :
            /\ \A i \in 1..Len(leaves) : leaves[i] \in 0..(nVertex - 1)
            /\ \A i, j \in 1..Len(leaves) : leaves[i] = leaves[j] => i = j
            /\ {leaves[i] : i \in 1..Len(leaves)} = verticesIn(b)

(* a blossom with a blossom among its children is active, and the second   *)
(* lowest id has been allocated                                            *)
C30_Witness ==
  /\ nVertex > 0
  /\ \E b \in activeBlossoms :
        /\ \E i \in 1..Len(blossomChilds[b]) : blossomChilds[b][i] >= nVertex
        /\ Len(blossomLeaves(Engine, b)) >= 5


====
